---- MODULE Spec2Model ----
(***************************************************************************)
(* telemetry-platform: the in-process priority queue                       *)
(* (processing/src/task_queue.cpp, processing/include/task_queue.h).       *)
(*                                                                         *)
(* One TaskQueue object shared by the caller threads and one owner         *)
(* that may destroy it.  Every member function takes mutex_ on entry and   *)
(* holds it until it returns or blocks in wait_for, so each critical       *)
(* section is one atomic action: a call takes effect at the instant it     *)
(* takes the lock, and a thread has a position of its own only while it is *)
(* inside wait_for.                                                        *)
(*                                                                         *)
(* History variables (not program state): last, nEnq, dequeued,            *)
(* lastDeq, pushedSince, cleared, and the seq field that stamps an entry   *)
(* with the ordinal of the successful enqueue that inserted it.            *)
(* TaskComparator never reads seq.                                         *)
(***************************************************************************)
EXTENDS Integers, Sequences, FiniteSets, Bags, TLC

\* ---------------------------------------------------------------- bounds
MaxCap == 2
MaxEnq == 3
\* pushes to a broker list per caller
MaxPush == 2
\* calls the callers make on the broker lists
MaxListCalls == 9
\* calls the callers make on the dedup set
MaxSetCalls == 3
\* calls the callers make on the priority sorted set
MaxZsetCalls == 4
\* calls the callers make when they use every operation of both clients
MaxCalls == 3
\* calls the callers make on the in-memory client alone
MaxMemCalls == 5
\* calls the caller makes when it runs both clients side by side
MaxPairCalls == 9
\* calls of generate_uuid the threads make
MaxUuidCalls == 3
\* draws from the generator that the model follows in one call of
\* generate_uuid (they stand for the 31 of the code)
MaxDraws == 2
\* tasks the producer submits to the workers
MaxTasks == 2
\* the largest max_retries of a submitted task
MaxRetries == 2
\* width in bits of the model's int (stands for the 32 of the build); JSON
\* integers and time_t are two bits wider (stand for 64)
IntBits == 4

\* ------------------------------------------------------ program constants
HIGH == 0
MEDIUM == 1
LOW == 2

\* the caller threads
Threads == {1, 2}
Priorities == {HIGH, MEDIUM, LOW}
\* Task::created_at, as the caller's system_clock stamped it
Times == {1, 2}
\* timeout.count(): 0 = do not wait, 1 stands for any positive duration
Timeouts == {0, 1}

VARIABLES
    queue_,         \* the std::priority_queue's underlying vector (a binary heap)
    max_capacity_,  \* 0 = unbounded
    shutdown_,      \* latched by the destructor
    dtor,           \* position of the owner inside ~TaskQueue
    pc,             \* pc[t]: position of thread t
    task,           \* task[t]: the Task argument of t's waiting enqueue
    tmo,            \* tmo[t]: the timeout argument of t's waiting call
    wake,           \* wake[t]: state of t's condition wait
    last,           \* history: the step just taken and what it returned
    nEnq,           \* history: number of successful enqueues so far
    dequeued,       \* history: bag of the seq of every entry returned by dequeue
    lastDeq,        \* history: priority and seq of the entry the latest dequeue returned
    pushedSince,    \* history: an enqueue has succeeded since that dequeue
    cleared,        \* history: seq of every entry removed by clear()
    cpc,            \* task codec: how far the task under conversion has come
    t_in,           \* task codec: the telemetry_processor::Task being sent
    wire,           \* task codec: the envelope (a JSON value, or text not yet parsed)
    t_out           \* task codec: what the receiving side got

\* the variables of the task codec
codec == <<cpc, t_in, wire, t_out>>

VARIABLES
    spc,            \* sample codec: how far the sample under conversion has come
    s_in,           \* sample codec: the TelemetrySampleCpp being encoded
    bytes,          \* sample codec: the binary data (the fields on the wire)
    s_out           \* sample codec: what deserialize returned

\* the variables of the sample codec
sample == <<spc, s_in, bytes, s_out>>

\* the variables of the TaskQueue and of its history
queueVars == <<queue_, max_capacity_, shutdown_, dtor, pc, task, tmo, wake, last,
               nEnq, dequeued, lastDeq, pushedSince, cleared>>

VARIABLES
    connected_,     \* in-memory client: RedisClient::connected_
    kv_store,       \* in-memory client: Impl::kv_store at the key in use
    lists,          \* in-memory client: Impl::lists at the key in use
    redis_,         \* Redis-backed client: redis_ is not null
    r_str,          \* server: the string at task:<id>
    r_list,         \* server: the list at queue:<name>, head first
    r_set,          \* server: the set at dedup:<name>
    r_zset,         \* server: the sorted set at priq:<name>, (member, score) pairs
    r_ctr,          \* server: the counter at counter:<name>
    r_ttl,          \* server: seconds to live of task:<id>, -1 = no expiry
    bwait,          \* bwait[c]: caller c inside a blocking brpop ("no",
                    \* "timed": with a timeout, "forever": without)
    bres,           \* history: the call that returned last and what it returned
    hist,           \* history: elements pushed, removed and returned, per store
    setLog,         \* history: every sadd and srem call that returned, in order
    bLeft           \* calls the callers still make

\* the variables of the two broker clients
broker == <<connected_, kv_store, lists, redis_, r_str, r_list, r_set, r_zset,
            r_ctr, r_ttl, bwait, bres, hist, setLog, bLeft>>

VARIABLES
    wpc,            \* wpc[w]: where worker w is in its loop
    wtext,          \* wtext[w]: the envelope worker w popped
    wtask,          \* wtask[w]: the task worker w holds
    tstore,         \* server: the string at task:<id>, for each task id
    toSubmit,       \* tasks the producer still submits
    whist           \* history, per task id: the status changes, the handler
                    \* runs and their results, the retry_count of each re-push

\* the variables of the worker path
worker == <<wpc, wtext, wtask, tstore, toSubmit, whist>>

VARIABLES
    gen,            \* generate_uuid: the state of the static std::mt19937, as
                    \* the number of outputs it has given
    upc,            \* upc[t]: where thread t is inside generate_uuid
    uld,            \* uld[t]: the generator state thread t has read
    uid,            \* uid[t]: the digits thread t has written to its stream
    uret,           \* history: the ids returned, in order
    uLeft           \* calls of generate_uuid the threads still make

\* the variables of the id generator
uuid == <<gen, upc, uld, uid, uret, uLeft>>

\* the variables outside the TaskQueue and the task codec
rest == <<sample, broker, worker, uuid>>

vars == <<queue_, max_capacity_, codec, rest, shutdown_, dtor, pc, task, tmo, wake, last,
          nEnq, dequeued, lastDeq, pushedSince, cleared>>

NoTask == [priority |-> MEDIUM, created_at |-> 0, seq |-> 0]

\* struct Task, reduced to the fields the queue reads
MkTask(p, c) == [priority |-> p, created_at |-> c, seq |-> 0]

\* a step label: which operation ran, its timeout argument, its outcome
\* (res "wait": the caller blocked or went back to waiting) and, for the
\* observers, the value returned
Step(op, tm, res) == [op |-> op, tmo |-> tm, res |-> res, val |-> NoTask]

\* ------------------------------------------------------------- the heap

\* mutant: the priority comparison turned around
TaskComparator_PriorityInverted(a, b) ==
    IF a.priority # b.priority
    THEN a.priority < b.priority
    ELSE a.created_at > b.created_at

\* mutant: the timestamp comparison turned around
TaskComparator_NewestFirst(a, b) ==
    IF a.priority # b.priority
    THEN a.priority > b.priority
    ELSE a.created_at < b.created_at

\* TaskComparator::operator(): TRUE when a is ordered below b (b comes out first)
TaskComparator(a, b) ==
    IF a.priority # b.priority
    THEN a.priority > b.priority
    ELSE a.created_at > b.created_at

\* std::push_heap's sift-up; hole and parent are 0-based indices
RECURSIVE PushHeap(_, _, _)
PushHeap(s, hole, value) ==
    LET parent == (hole - 1) \div 2 IN
    IF hole > 0 /\ TaskComparator(s[parent + 1], value)
    THEN PushHeap([s EXCEPT ![hole + 1] = s[parent + 1]], parent, value)
    ELSE [s EXCEPT ![hole + 1] = value]

\* queue_.push(task): push_back, then push_heap
HeapPush(q, e) == PushHeap(Append(q, e), Len(q), e)

\* queue_.top(): the front of the vector
HeapTop(q) == q[1]

\* std::__adjust_heap's descent: move the larger child up until the hole
\* has no two children
RECURSIVE AdjustDown(_, _, _)
AdjustDown(s, len, child) ==
    IF child < (len - 1) \div 2
    THEN LET c2 == 2 * (child + 1)
             c  == IF TaskComparator(s[c2 + 1], s[c2]) THEN c2 - 1 ELSE c2
         IN  AdjustDown([s EXCEPT ![child + 1] = s[c + 1]], len, c)
    ELSE <<s, child>>

\* std::__adjust_heap(first, 0, len, value)
AdjustHeap(s, len, value) ==
    LET d    == AdjustDown(s, len, 0)
        s1   == d[1]
        hole == d[2]
    IN  IF len % 2 = 0 /\ hole = (len - 2) \div 2
        THEN LET c2 == 2 * (hole + 1)
             IN  PushHeap([s1 EXCEPT ![hole + 1] = s1[c2]], c2 - 1, value)
        ELSE PushHeap(s1, hole, value)

\* mutant: pop_back without pop_heap, the top stays and the back is lost
HeapPop_BackOnly(q) ==
    IF Len(q) <= 1 THEN <<>> ELSE SubSeq(q, 1, Len(q) - 1)

\* queue_.pop(): pop_heap, then pop_back
HeapPop(q) ==
    IF Len(q) <= 1
    THEN <<>>
    ELSE AdjustHeap(SubSeq(q, 1, Len(q) - 1), Len(q) - 1, q[Len(q)])

Entries(q) == {q[i] : i \in 1..Len(q)}

\* -------------------------------------------------- condition variables

\* threads blocked inside not_full_.wait_for / not_empty_.wait_for
NotFullWaiters == {t \in Threads : pc[t] = "enq_wait" /\ wake[t] = "blocked"}
NotEmptyWaiters == {t \in Threads : pc[t] = "deq_wait" /\ wake[t] = "blocked"}

\* mutant: the notification is dropped, no waiter is woken
NotifyOne_Dropped(w, waiters) == {w}

\* notify_one: the wake functions that can result; w is the function to update
NotifyOne(w, waiters) ==
    IF waiters = {}
    THEN {w}
    ELSE {[w EXCEPT ![u] = "notified"] : u \in waiters}

\* notify_all
NotifyAll(w, waiters) ==
    [u \in Threads |-> IF u \in waiters THEN "notified" ELSE w[u]]

\* mutant: off by one, a full queue counts as having space
NotFullPred_OffByOne == shutdown_ \/ Len(queue_) <= max_capacity_

\* the wait predicate of lines 37-39
NotFullPred == shutdown_ \/ Len(queue_) < max_capacity_

\* the wait predicate of lines 67-69
NotEmptyPred == shutdown_ \/ Len(queue_) > 0

\* the object's members are gone once the destructor has returned
Destroyed == dtor = "destroyed"

\* ------------------------------------------------------------ observers
\* const member functions: each takes the lock, reads, and returns

\* size(), lines 96-99
size == Len(queue_)

\* capacity(), lines 111-113
capacity == max_capacity_

\* a double that is the quotient of two integers, kept exact
Ratio(n, d) == [num |-> n, den |-> d]

\* mutant: the utilization is left a fraction, not multiplied by 100
get_stats_Fraction ==
    [current_size |-> Len(queue_),
     capacity |-> max_capacity_,
     utilization |-> IF max_capacity_ > 0
                     THEN Ratio(Len(queue_), max_capacity_)
                     ELSE Ratio(0, 1),
     priority_breakdown |-> [p \in Priorities |-> 0]]

\* get_stats(), lines 127-154
get_stats ==
    [current_size |-> Len(queue_),
     capacity |-> max_capacity_,
     utilization |-> IF max_capacity_ > 0
                     THEN Ratio(Len(queue_) * 100, max_capacity_)
                     ELSE Ratio(0, 1),
     priority_breakdown |-> [p \in Priorities |-> 0]]

\* ============================================================ task codec
\* telemetry_processor::Task and its JSON envelope
\* (processing/src/core/Task.cpp, common/src/json_utils.cpp)

\* enum class Priority (HIGH and LOW as above) and enum class TaskStatus
NORMAL == 1
PENDING == 0
RUNNING == 1
COMPLETED == 2
FAILED == 3
CANCELLED == 4

\* the values of an int
IntMin == -(2 ^ (IntBits - 1))
IntMax == 2 ^ (IntBits - 1) - 1

\* the values of a 64-bit integer (time_t, a JSON number_integer)
WideMax == 2 ^ (IntBits + 1) - 1

\* conversion of a wider integer to int: the low bits, two's complement
ToInt(n) == ((n - IntMin) % (2 ^ IntBits)) + IntMin

\* ticks of system_clock::time_point in one second.  The tick of the model
\* is the microsecond; the build's is the nanosecond.
TicksPerSecond == 1000000

\* system_clock::to_time_t: duration_cast to seconds, truncating toward zero
to_time_t(tp) ==
    IF tp >= 0 THEN tp \div TicksPerSecond ELSE -((-tp) \div TicksPerSecond)

\* system_clock::from_time_t
from_time_t(s) == s * TicksPerSecond

\* the fields of the envelope, in the order to_json writes them
Keys == {"id", "type", "payload", "priority", "status", "retry_count",
         "max_retries", "created_at", "updated_at", "worker_id"}

\* JSON values: a field that the object does not hold, a string, an integer
\* and null (which stands for every value that is neither)
Absent == [type |-> "absent", v |-> 0]
JNull == [type |-> "null", v |-> 0]
JString(x) == [type |-> "string", v |-> x]
JInteger(n) == [type |-> "integer", v |-> n]

\* a JSON object: its members by key; the key "extra" is one no Task has
JObject(members) == [kind |-> "object", f |-> members]

\* a JSON value that is not an object: what json() default-constructs
JNullDoc == [kind |-> "null", f |-> [k \in Keys \cup {"extra"} |-> Absent]]

\* a value that is no result
NoRec == [id |-> "", type |-> "", payload |-> "", priority |-> NORMAL,
          status |-> PENDING, retry_count |-> 0, max_retries |-> 0,
          created_at |-> 0, updated_at |-> 0, worker_id |-> ""]

StringKeys == {"id", "type", "payload", "worker_id"}
IntKeys == Keys \ StringKeys

\* mutant: the envelope has no retry_count member
Task_to_json_NoRetryCount(t) ==
    JObject([k \in Keys \cup {"extra"} |->
        CASE k = "id" -> JString(t.id)
          [] k = "type" -> JString(t.type)
          [] k = "payload" -> JString(t.payload)
          [] k = "priority" -> JInteger(t.priority)
          [] k = "status" -> JInteger(t.status)
          [] k = "max_retries" -> JInteger(t.max_retries)
          [] k = "created_at" -> JInteger(to_time_t(t.created_at))
          [] k = "updated_at" -> JInteger(to_time_t(t.updated_at))
          [] k = "worker_id" -> JString(t.worker_id)
          [] OTHER -> Absent])

\* Task::to_json, lines 65-78
Task_to_json(t) ==
    JObject([k \in Keys \cup {"extra"} |->
        CASE k = "id" -> JString(t.id)
          [] k = "type" -> JString(t.type)
          [] k = "payload" -> JString(t.payload)
          [] k = "priority" -> JInteger(t.priority)
          [] k = "status" -> JInteger(t.status)
          [] k = "retry_count" -> JInteger(t.retry_count)
          [] k = "max_retries" -> JInteger(t.max_retries)
          [] k = "created_at" -> JInteger(to_time_t(t.created_at))
          [] k = "updated_at" -> JInteger(to_time_t(t.updated_at))
          [] k = "worker_id" -> JString(t.worker_id)
          [] OTHER -> Absent])

\* basic_json::value(key, default) throws type_error: 306 when the value is
\* not an object, 302 when the member is there and has another type
ValueThrows(j, key, want) ==
    \/ j.kind # "object"
    \/ j.f[key].type # "absent" /\ j.f[key].type # want

\* j.value(key, "") : std::string
value_string(j, key, default) ==
    IF j.f[key].type = "absent" THEN default ELSE j.f[key].v

\* j.value(key, 0) : int, whatever the width of the number in the document
value_int(j, key, default) ==
    IF j.f[key].type = "absent" THEN default ELSE ToInt(j.f[key].v)

\* an exception leaves the function
Thrown(what) == [ok |-> FALSE, what |-> what, task |-> NoRec]
Returned(t) == [ok |-> TRUE, what |-> "task", task |-> t]

\* mutant: worker_id is read from the member "id"
Task_from_json_WrongKey(j) ==
    IF \/ \E k \in StringKeys : ValueThrows(j, k, "string")
       \/ \E k \in IntKeys : ValueThrows(j, k, "integer")
    THEN Thrown("type_error")
    ELSE Returned([id |-> value_string(j, "id", ""),
                   type |-> value_string(j, "type", ""),
                   payload |-> value_string(j, "payload", ""),
                   priority |-> value_int(j, "priority", 1),
                   status |-> value_int(j, "status", 0),
                   retry_count |-> value_int(j, "retry_count", 0),
                   max_retries |-> value_int(j, "max_retries", 3),
                   created_at |-> from_time_t(value_int(j, "created_at", 0)),
                   updated_at |-> from_time_t(value_int(j, "updated_at", 0)),
                   worker_id |-> value_string(j, "id", "")])

\* Task::from_json, lines 80-99
Task_from_json(j) ==
    IF \/ \E k \in StringKeys : ValueThrows(j, k, "string")
       \/ \E k \in IntKeys : ValueThrows(j, k, "integer")
    THEN Thrown("type_error")
    ELSE Returned([id |-> value_string(j, "id", ""),
                   type |-> value_string(j, "type", ""),
                   payload |-> value_string(j, "payload", ""),
                   priority |-> value_int(j, "priority", 1),
                   status |-> value_int(j, "status", 0),
                   retry_count |-> value_int(j, "retry_count", 0),
                   max_retries |-> value_int(j, "max_retries", 3),
                   created_at |-> from_time_t(value_int(j, "created_at", 0)),
                   updated_at |-> from_time_t(value_int(j, "updated_at", 0)),
                   worker_id |-> value_string(j, "worker_id", "")])

\* json.dump(): the text of an object (main.cpp, lines 46 and 61)
dump(j) == [kind |-> "text", f |-> j.f]

\* text that is not JSON
Garbage == [kind |-> "garbage", f |-> JNullDoc.f]

\* nlohmann::json::parse: the value, or parse_error thrown
ParseThrows(text) == text.kind # "text"
parse(text) == JObject(text.f)

\* string_to_json, json_utils.cpp lines 10-16: the exception is swallowed
\* and a null value returned
string_to_json(str) ==
    IF ParseThrows(str) THEN JNullDoc ELSE parse(str)

\* n copies of the string c
RECURSIVE Repeat(_, _)
Repeat(c, n) == IF n = 0 THEN "" ELSE c \o Repeat(c, n - 1)

\* what ss << std::hex << n writes for 0 <= n <= 15
HexDigit(n) ==
    <<"0", "1", "2", "3", "4", "5", "6", "7", "8", "9", "a", "b", "c", "d",
      "e", "f">>[n + 1]

\* generate_uuid, lines 8-43, when every draw of dis yields d and the draw
\* of dis2 yields v
generate_uuid(d, v) ==
    Repeat(HexDigit(d), 8) \o "-" \o Repeat(HexDigit(d), 4) \o "-4"
        \o Repeat(HexDigit(d), 3) \o "-" \o HexDigit(v)
        \o Repeat(HexDigit(d), 3) \o "-" \o Repeat(HexDigit(d), 12)

\* mutant: the new task starts RUNNING
Task_create_Running(ty, pl, pr, mr, now, d, v) ==
    [id |-> generate_uuid(d, v), type |-> ty, payload |-> pl,
     priority |-> pr, status |-> RUNNING, retry_count |-> 0,
     max_retries |-> mr, created_at |-> now, updated_at |-> now,
     worker_id |-> ""]

\* Task::create, lines 101-120; now is what system_clock::now() returns
Task_create(ty, pl, pr, mr, now, d, v) ==
    [id |-> generate_uuid(d, v), type |-> ty, payload |-> pl,
     priority |-> pr, status |-> PENDING, retry_count |-> 0,
     max_retries |-> mr, created_at |-> now, updated_at |-> now,
     worker_id |-> ""]

\* ========================================================== sample codec
\* (common/src/proto_adapter.cpp, common/include/telemetry_common/proto_adapter.h)

\* ticks of system_clock::time_point in one microsecond (the tick is the
\* nanosecond)
NanosPerMicro == 1000

\* the values of a uint32_t
UIntMax == 2 ^ IntBits - 1

\* the values of an int64_t
Int64Min == -(2 ^ (IntBits + 1))
Int64Max == 2 ^ (IntBits + 1) - 1

\* duration_cast<microseconds> of a count of ticks: truncation toward zero
duration_cast_us(ticks) ==
    IF ticks >= 0 THEN ticks \div NanosPerMicro
    ELSE -((-ticks) \div NanosPerMicro)

\* struct TelemetrySampleCpp with its default member initializers
DefaultSample ==
    [timestamp |-> 0, value |-> "0.0", unit |-> "unitless", sequence_id |-> 0]

\* message TelemetrySample as constructed: every field at its default
DefaultProto ==
    [timestamp_us |-> 0, value |-> "0.0", unit |-> "", sequence_id |-> 0]

\* mutant: the timestamp is cast to milliseconds
toProto_Millis(s) ==
    [timestamp_us |-> duration_cast_us(s.timestamp) \div 1000,
     value |-> s.value, unit |-> s.unit, sequence_id |-> s.sequence_id]

\* ProtoAdapter::toProto, lines 6-20
toProto(s) ==
    [timestamp_us |-> duration_cast_us(s.timestamp),
     value |-> s.value, unit |-> s.unit, sequence_id |-> s.sequence_id]

\* ProtoAdapter::fromProto, lines 22-35
fromProto(p) ==
    [timestamp |-> p.timestamp_us * NanosPerMicro,
     value |-> p.value, unit |-> p.unit, sequence_id |-> p.sequence_id]

\* the four fields in field-number order
ProtoFields == <<"timestamp_us", "value", "unit", "sequence_id">>

\* what the wire carries for an int64: the two's-complement bit pattern
ToUnsigned64(n) == n % (2 ^ (IntBits + 2))
ToSigned64(u) == IF u > Int64Max THEN u - 2 ^ (IntBits + 2) ELSE u

\* the fields written as integers (varint) and as bytes (fixed64, length-
\* delimited)
IntFields == {"timestamp_us", "sequence_id"}

\* one field on the wire: its number, and its value as written, n for an
\* integer and s for bytes
WireField(p, i) ==
    [num |-> i,
     n |-> IF ProtoFields[i] = "timestamp_us"
           THEN ToUnsigned64(p.timestamp_us)
           ELSE IF ProtoFields[i] = "sequence_id" THEN p.sequence_id ELSE 0,
     s |-> IF ProtoFields[i] = "value" THEN p.value
           ELSE IF ProtoFields[i] = "unit" THEN p.unit ELSE ""]

\* SerializeToString: the fields that differ from their default, in
\* field-number order; a field at its default is not written
RECURSIVE SerializeFrom(_, _)
SerializeFrom(p, i) ==
    IF i > Len(ProtoFields) THEN <<>>
    ELSE (IF p[ProtoFields[i]] = DefaultProto[ProtoFields[i]]
          THEN <<>> ELSE <<WireField(p, i)>>) \o SerializeFrom(p, i + 1)

SerializeToString(p) == [ok |-> TRUE, fields |-> SerializeFrom(p, 1)]

\* bytes that are not a message
BadBytes == [ok |-> FALSE, fields |-> <<>>]

\* ParseFromString: false on bytes that are not a message; else every
\* field read overwrites the default, fields of unknown number are skipped
RECURSIVE ParseInto(_, _)
ParseInto(p, fs) ==
    IF fs = <<>> THEN p
    ELSE LET f == Head(fs)
             k == ProtoFields[f.num]
         IN  ParseInto(
                 IF f.num \notin 1..Len(ProtoFields) THEN p
                 ELSE IF k = "timestamp_us"
                      THEN [p EXCEPT !.timestamp_us = ToSigned64(f.n)]
                 ELSE IF k = "sequence_id"
                      THEN [p EXCEPT !.sequence_id = f.n]
                 ELSE IF k = "value" THEN [p EXCEPT !.value = f.s]
                 ELSE [p EXCEPT !.unit = f.s],
                 Tail(fs))

ParseFromString(b) == [ok |-> b.ok, proto |-> ParseInto(DefaultProto, b.fields)]

\* ProtoAdapter::serialize, lines 37-43
serialize(s) == SerializeToString(toProto(s))

\* ProtoAdapter::deserialize, lines 45-52: std::nullopt when parsing fails
deserialize(b) ==
    LET r == ParseFromString(b)
    IN  IF ~r.ok THEN [present |-> FALSE, sample |-> DefaultSample]
        ELSE [present |-> TRUE, sample |-> fromProto(r.proto)]

\* no sample is under conversion
NoOptional == [present |-> FALSE, sample |-> DefaultSample]
SampleIdle ==
    /\ s_in = DefaultSample
    /\ bytes = BadBytes
    /\ s_out = NoOptional

SampleOff ==
    /\ spc = "off"
    /\ SampleIdle

\* =========================================================== broker clients
\* (processing/src/core/RedisClient.cpp: the in-memory client;
\*  common/src/redis_client.cpp: the client of a Redis server)

\* the threads that call the clients
Clients == {1, 2}

\* the elements caller c pushes, in the order it pushes them
Elems == <<<<"a1", "a2", "a3">>, <<"b1", "b2", "b3">>>>
Producer(v) == CHOOSE c \in Clients : \E k \in 1..MaxPush : Elems[c][k] = v
SeqNo(v) == CHOOSE k \in 1..MaxPush : Elems[Producer(v)][k] = v

\* string values, set members, scores (HIGH, MEDIUM, LOW as the producer
\* path weighs them)
Values == {"v1", "v2"}
Members == {"F", "G"}
Scores == {10, 50, 100}

\* the replies of TTL for a key without expiry and for a missing key
NoExpiry == -1
NoKey == -2

\* std::nullopt and a present optional
Nothing == <<>>
Some(v) == <<v>>

\* what a call returned: b for bool, n for an integer, s for an optional, a
\* string or a list of strings
RetBool(x) == [kind |-> "bool", b |-> x, n |-> 0, s |-> <<>>]
RetInt(x) == [kind |-> "int", b |-> FALSE, n |-> x, s |-> <<>>]
RetOpt(x) == [kind |-> "optional", b |-> FALSE, n |-> 0, s |-> x]
RetStr(x) == [kind |-> "string", b |-> FALSE, n |-> 0, s |-> <<x>>]
RetList(x) == [kind |-> "list", b |-> FALSE, n |-> 0, s |-> x]

\* the record of a call: which client ("mem" or "redis"), which caller, the
\* operation, its key, how it ended ("ok", or "error"/"lost"/"null": it
\* could not complete), the value returned
Call(cl, c, op, key, how, ret) ==
    [client |-> cl, by |-> c, op |-> op, key |-> key, how |-> how, ret |-> ret]

NoCall == Call("none", 1, "none", "", "ok", RetBool(FALSE))

\* an absent std::map entry of Impl::lists, and a present one
NoList == [has |-> FALSE, items |-> <<>>]
List(items) == [has |-> TRUE, items |-> items]

NoHist ==
    [mem_pushed |-> <<>>, mem_popped |-> <<>>,
     r_pushed |-> <<>>, r_removed |-> <<>>, r_popped |-> <<>>]

\* both clients as constructed, an empty server, no call made
BrokerIdle ==
    /\ connected_ = FALSE
    /\ kv_store = Nothing
    /\ lists = NoList
    /\ redis_ = TRUE
    /\ r_str = Nothing
    /\ r_list = <<>>
    /\ r_set = {}
    /\ r_zset = {}
    /\ r_ctr = Nothing
    /\ r_ttl = NoExpiry
    /\ bwait = [c \in Clients |-> "no"]
    /\ bres = NoCall
    /\ hist = NoHist
    /\ setLog = <<>>

BrokerOff ==
    /\ BrokerIdle
    /\ bLeft = 0

\* ============================================================ worker path
\* (spec 4.D, 4.E; the tasks and envelopes are those of core/Task.cpp)

Workers == Clients
WorkerName(w) == IF w = 1 THEN "w1" ELSE "w2"

\* the task types with a registered handler
Registered == {"t"}

\* what the random generator gives for the ids of the producer's tasks
TaskSeeds == <<<<0, 8>>, <<10, 11>>, <<15, 8>>>>
TaskIds == {generate_uuid(TaskSeeds[i][1], TaskSeeds[i][2]) : i \in 1..MaxTasks}

\* no envelope
NoText == [kind |-> "none", f |-> JNullDoc.f]

\* nothing has happened to a task yet
NoTaskHist == [moves |-> <<>>, runs |-> 0, results |-> {}, repushed |-> <<>>,
               max_retries |-> 0, made |-> FALSE]

WorkerIdle ==
    /\ wpc = [w \in Workers |-> "idle"]
    /\ wtext = [w \in Workers |-> NoText]
    /\ wtask = [w \in Workers |-> NoRec]
    /\ tstore = [i \in TaskIds |-> NoText]
    /\ whist = [i \in TaskIds |-> NoTaskHist]

WorkerOff ==
    /\ WorkerIdle
    /\ toSubmit = 0

\* generate_uuid has not been called: gen is seeded at the first call
UuidIdle ==
    /\ gen = 0
    /\ upc = [t \in Threads |-> "idle"]
    /\ uld = [t \in Threads |-> 0]
    /\ uid = [t \in Threads |-> <<>>]
    /\ uret = <<>>

UuidOff ==
    /\ UuidIdle
    /\ uLeft = 0

\* nothing outside the TaskQueue and the task codec is in use
RestIdle == SampleOff /\ BrokerOff /\ WorkerOff /\ UuidOff

\* ------------------------------------------------------------------ init

\* no task is under conversion
NoResult == [ok |-> TRUE, what |-> "none", task |-> NoRec]
CodecIdle ==
    /\ t_in = NoRec
    /\ wire = JNullDoc
    /\ t_out = NoResult

Init ==
    /\ cpc = "off"
    /\ CodecIdle
    /\ RestIdle
    /\ queue_ = <<>>
    /\ max_capacity_ \in 0..MaxCap
    /\ shutdown_ = FALSE
    /\ dtor = "alive"
    /\ pc = [t \in Threads |-> "idle"]
    /\ task = [t \in Threads |-> NoTask]
    /\ tmo = [t \in Threads |-> 0]
    /\ wake = [t \in Threads |-> "running"]
    /\ last = Step("init", 0, "none")
    /\ nEnq = 0
    /\ dequeued = EmptyBag
    /\ lastDeq = [priority |-> MEDIUM, seq |-> 0]
    /\ pushedSince = FALSE
    /\ cleared = {}

\* ------------------------------------------------------- leaving a call

\* thread t is outside any call again
Leave(t) ==
    /\ pc' = [pc EXCEPT ![t] = "idle"]
    /\ task' = [task EXCEPT ![t] = NoTask]
    /\ tmo' = [tmo EXCEPT ![t] = 0]

\* thread t blocks in wait_for with the lock released
Block(t, where, tk, tm) ==
    /\ pc' = [pc EXCEPT ![t] = where]
    /\ task' = [task EXCEPT ![t] = tk]
    /\ tmo' = [tmo EXCEPT ![t] = tm]
    /\ wake' = [wake EXCEPT ![t] = "blocked"]

\* A waiter re-takes the mutex of a queue whose lifetime has ended:
\* undefined behaviour.  Position and result "ub" stand for every outcome
\* (a crash, a hang, a return of any value, a write to freed storage); the
\* thread has no defined return and the destroyed queue is not touched again.
UseAfterDestroy(t, op) ==
    /\ pc' = [pc EXCEPT ![t] = "ub"]
    /\ task' = [task EXCEPT ![t] = NoTask]
    /\ tmo' = [tmo EXCEPT ![t] = 0]
    /\ wake' = [wake EXCEPT ![t] = "running"]
    /\ last' = Step(op, tmo[t], "ub")
    /\ UNCHANGED <<queue_, max_capacity_, codec, rest, shutdown_, dtor, nEnq, dequeued,
                   lastDeq, pushedSince, cleared>>

\* --------------------------------------------------------------- enqueue

\* lines 47-53: push, notify one consumer, return true
DoPush(t, op, tk, tm) ==
    /\ queue_' = HeapPush(queue_, [tk EXCEPT !.seq = nEnq + 1])
    /\ nEnq' = nEnq + 1
    /\ pushedSince' = TRUE
    /\ wake' \in NotifyOne([wake EXCEPT ![t] = "running"], NotEmptyWaiters)
    /\ Leave(t)
    /\ last' = Step(op, tm, "true")
    /\ UNCHANGED <<max_capacity_, codec, rest, shutdown_, dtor, dequeued, lastDeq, cleared>>

\* mutant: a failed enqueue signals not_empty as a successful one does
EnqueueFail_Notifies(t, op, tm) ==
    /\ Leave(t)
    /\ wake' \in NotifyOne([wake EXCEPT ![t] = "running"], NotEmptyWaiters)
    /\ last' = Step(op, tm, "false")
    /\ UNCHANGED <<queue_, max_capacity_, codec, rest, shutdown_, dtor, nEnq, dequeued,
                   lastDeq, pushedSince, cleared>>

\* return false with the queue untouched
EnqueueFail(t, op, tm) ==
    /\ Leave(t)
    /\ wake' = [wake EXCEPT ![t] = "running"]
    /\ last' = Step(op, tm, "false")
    /\ UNCHANGED <<queue_, max_capacity_, codec, rest, shutdown_, dtor, nEnq, dequeued,
                   lastDeq, pushedSince, cleared>>

\* mutant: > for >=, a queue exactly at capacity is not seen as full
FullNoWait_OffByOne(tm) ==
    max_capacity_ > 0 /\ tm = 0 /\ Len(queue_) > max_capacity_

\* lines 29-34: the non-blocking call finds the bounded queue full
FullNoWait(tm) ==
    max_capacity_ > 0 /\ tm = 0 /\ Len(queue_) >= max_capacity_

\* mutant: the max_capacity_ > 0 test is missing, an unbounded queue waits
FullMustWait_Unguarded(tm) ==
    tm # 0 /\ ~NotFullPred

\* lines 35-39: the blocking call finds the wait predicate false
FullMustWait(tm) ==
    max_capacity_ > 0 /\ tm # 0 /\ ~NotFullPred

\* enqueue(task, timeout), lines 20-54, from taking the lock to the return
\* or to the first block inside wait_for
Enqueue(t, p, c, tm) ==
    /\ pc[t] = "idle"
    /\ ~Destroyed
    /\ nEnq + Cardinality({u \in Threads : pc[u] = "enq_wait"}) < MaxEnq
    /\ IF shutdown_ THEN EnqueueFail(t, "enqueue", tm)
       ELSE IF FullNoWait(tm) THEN EnqueueFail(t, "enqueue", tm)
       ELSE IF FullMustWait(tm)
            THEN /\ Block(t, "enq_wait", MkTask(p, c), tm)
                 /\ last' = Step("enqueue", tm, "wait")
                 /\ UNCHANGED <<queue_, max_capacity_, codec, rest, shutdown_, dtor, nEnq,
                                dequeued, lastDeq, pushedSince, cleared>>
       ELSE DoPush(t, "enqueue", MkTask(p, c), tm)

\* mutant: a timed-out wait returns false without re-evaluating the
\* predicate (wait_for used as if it had no predicate)
EnqueueWake_TimeoutNoRecheck(t) ==
    /\ pc[t] = "enq_wait"
    /\ wake[t] \in {"notified", "timeout"}
    /\ IF Destroyed THEN UseAfterDestroy(t, "enqueue_wake")
       ELSE IF wake[t] = "notified" /\ ~NotFullPred
            THEN /\ wake' = [wake EXCEPT ![t] = "blocked"]
                 /\ last' = Step("enqueue_wake", tmo[t], "wait")
                 /\ UNCHANGED <<queue_, max_capacity_, codec, rest, shutdown_, dtor, pc,
                                task, tmo, nEnq, dequeued, lastDeq,
                                pushedSince, cleared>>
       ELSE IF wake[t] = "timeout" \/ shutdown_
            THEN EnqueueFail(t, "enqueue_wake", tmo[t])
       ELSE DoPush(t, "enqueue_wake", task[t], tmo[t])

\* wait_for wakes (notified, spuriously, or on timeout), re-takes the lock
\* and re-evaluates the predicate; lines 37-53
EnqueueWake(t) ==
    /\ pc[t] = "enq_wait"
    /\ wake[t] \in {"notified", "timeout"}
    /\ IF Destroyed THEN UseAfterDestroy(t, "enqueue_wake")
       ELSE IF wake[t] = "notified" /\ ~NotFullPred
            THEN /\ wake' = [wake EXCEPT ![t] = "blocked"]
                 /\ last' = Step("enqueue_wake", tmo[t], "wait")
                 /\ UNCHANGED <<queue_, max_capacity_, codec, rest, shutdown_, dtor, pc,
                                task, tmo, nEnq, dequeued, lastDeq, pushedSince, cleared>>
       ELSE IF ~NotFullPred \/ shutdown_
            THEN EnqueueFail(t, "enqueue_wake", tmo[t])
       ELSE DoPush(t, "enqueue_wake", task[t], tmo[t])

\* --------------------------------------------------------------- dequeue

\* lines 76-83: take the top, pop, notify one producer, return the task
DoPop(t, op, tm) ==
    /\ queue_' = HeapPop(queue_)
    /\ dequeued' = dequeued (+) SetToBag({HeapTop(queue_).seq})
    /\ lastDeq' = [priority |-> HeapTop(queue_).priority, seq |-> HeapTop(queue_).seq]
    /\ pushedSince' = FALSE
    /\ wake' \in NotifyOne([wake EXCEPT ![t] = "running"], NotFullWaiters)
    /\ Leave(t)
    /\ last' = Step(op, tm, "task")
    /\ UNCHANGED <<max_capacity_, codec, rest, shutdown_, dtor, nEnq, cleared>>

\* return std::nullopt with the queue untouched
DequeueFail(t, op, tm) ==
    /\ Leave(t)
    /\ wake' = [wake EXCEPT ![t] = "running"]
    /\ last' = Step(op, tm, "absent")
    /\ UNCHANGED <<queue_, max_capacity_, codec, rest, shutdown_, dtor, nEnq, 
                   dequeued, lastDeq, pushedSince, cleared>>

\* dequeue(timeout), lines 56-84, from taking the lock to the return or to
\* the first block inside wait_for
Dequeue(t, tm) ==
    /\ pc[t] = "idle"
    /\ ~Destroyed
    /\ IF tm = 0
       THEN IF Len(queue_) = 0
            THEN DequeueFail(t, "dequeue", tm)
            ELSE DoPop(t, "dequeue", tm)
       ELSE IF ~NotEmptyPred
            THEN /\ Block(t, "deq_wait", NoTask, tm)
                 /\ last' = Step("dequeue", tm, "wait")
                 /\ UNCHANGED <<queue_, max_capacity_, codec, rest, shutdown_, dtor, nEnq,
                                dequeued, lastDeq, pushedSince, cleared>>
       ELSE IF shutdown_ /\ Len(queue_) = 0
            THEN DequeueFail(t, "dequeue", tm)
       ELSE DoPop(t, "dequeue", tm)

\* mutant: a timed-out wait returns nullopt without re-evaluating the
\* predicate
DequeueWake_TimeoutNoRecheck(t) ==
    /\ pc[t] = "deq_wait"
    /\ wake[t] \in {"notified", "timeout"}
    /\ IF Destroyed THEN UseAfterDestroy(t, "dequeue_wake")
       ELSE IF wake[t] = "notified" /\ ~NotEmptyPred
            THEN /\ wake' = [wake EXCEPT ![t] = "blocked"]
                 /\ last' = Step("dequeue_wake", tmo[t], "wait")
                 /\ UNCHANGED <<queue_, max_capacity_, codec, rest, shutdown_, dtor, pc,
                                task, tmo, nEnq, dequeued, lastDeq,
                                pushedSince, cleared>>
       ELSE IF wake[t] = "timeout" \/ (shutdown_ /\ Len(queue_) = 0)
            THEN DequeueFail(t, "dequeue_wake", tmo[t])
       ELSE DoPop(t, "dequeue_wake", tmo[t])

\* mutant: a single wait without a loop: a woken waiter that finds the queue
\* still empty returns nullopt although its timeout has not expired
DequeueWake_NoRewait(t) ==
    /\ pc[t] = "deq_wait"
    /\ wake[t] \in {"notified", "timeout"}
    /\ IF Destroyed THEN UseAfterDestroy(t, "dequeue_wake")
       ELSE IF ~NotEmptyPred \/ (shutdown_ /\ Len(queue_) = 0)
            THEN DequeueFail(t, "dequeue_wake", tmo[t])
       ELSE DoPop(t, "dequeue_wake", tmo[t])

\* wait_for wakes, re-takes the lock and re-evaluates the predicate; 67-83
DequeueWake(t) ==
    /\ pc[t] = "deq_wait"
    /\ wake[t] \in {"notified", "timeout"}
    /\ IF Destroyed THEN UseAfterDestroy(t, "dequeue_wake")
       ELSE IF wake[t] = "notified" /\ ~NotEmptyPred
            THEN /\ wake' = [wake EXCEPT ![t] = "blocked"]
                 /\ last' = Step("dequeue_wake", tmo[t], "wait")
                 /\ UNCHANGED <<queue_, max_capacity_, codec, rest, shutdown_, dtor, pc,
                                task, tmo, nEnq, dequeued, lastDeq, pushedSince, cleared>>
       ELSE IF ~NotEmptyPred \/ (shutdown_ /\ Len(queue_) = 0)
            THEN DequeueFail(t, "dequeue_wake", tmo[t])
       ELSE DoPop(t, "dequeue_wake", tmo[t])

\* ------------------------------------------------------------------ peek

\* mutant: peek takes the task out, as dequeue does
Peek_Pops(t) ==
    /\ pc[t] = "idle"
    /\ ~Destroyed
    /\ last' = IF Len(queue_) = 0
               THEN Step("peek", 0, "absent")
               ELSE [Step("peek", 0, "task") EXCEPT !.val = HeapTop(queue_)]
    /\ queue_' = HeapPop(queue_)
    /\ UNCHANGED <<max_capacity_, codec, rest, shutdown_, dtor, pc, task, tmo, wake,
                   nEnq, dequeued, lastDeq, pushedSince, cleared>>

\* peek(), lines 86-94: nullopt on an empty queue, else a copy of top()
Peek(t) ==
    /\ pc[t] = "idle"
    /\ ~Destroyed
    /\ last' = IF Len(queue_) = 0
               THEN Step("peek", 0, "absent")
               ELSE [Step("peek", 0, "task") EXCEPT !.val = HeapTop(queue_)]
    /\ UNCHANGED <<queue_, max_capacity_, codec, rest, shutdown_, dtor, pc, task, tmo,
                   wake, nEnq, dequeued, lastDeq, pushedSince, cleared>>

\* ----------------------------------------------------------------- clear

\* mutant: clear() empties the queue and notifies nobody
Clear_NoNotify(t) ==
    /\ pc[t] = "idle"
    /\ ~Destroyed
    /\ queue_' = <<>>
    /\ cleared' = cleared \cup {e.seq : e \in Entries(queue_)}
    /\ last' = Step("clear", 0, "void")
    /\ UNCHANGED <<max_capacity_, codec, rest, shutdown_, dtor, pc, task, tmo, wake, nEnq,
                   dequeued, lastDeq, pushedSince>>

\* clear(), lines 115-125: pop until empty, then not_full_.notify_all()
Clear(t) ==
    /\ pc[t] = "idle"
    /\ ~Destroyed
    /\ queue_' = <<>>
    /\ cleared' = cleared \cup {e.seq : e \in Entries(queue_)}
    /\ wake' = NotifyAll(wake, NotFullWaiters)
    /\ last' = Step("clear", 0, "void")
    /\ UNCHANGED <<max_capacity_, codec, rest, shutdown_, dtor, pc, task, tmo, nEnq,
                   dequeued, lastDeq, pushedSince>>

\* ------------------------------------------------- condition-wait events

\* a blocked wait_for returns without a notification
SpuriousWake(t) ==
    /\ pc[t] \in {"enq_wait", "deq_wait"}
    /\ wake[t] = "blocked"
    /\ wake' = [wake EXCEPT ![t] = "notified"]
    /\ last' = Step("event", 0, "none")
    /\ UNCHANGED <<queue_, max_capacity_, codec, rest, shutdown_, dtor, pc, task, tmo,
                   nEnq, dequeued, lastDeq, pushedSince, cleared>>

\* the caller's timeout elapses while it is blocked
Timeout(t) ==
    /\ pc[t] \in {"enq_wait", "deq_wait"}
    /\ wake[t] = "blocked"
    /\ wake' = [wake EXCEPT ![t] = "timeout"]
    /\ last' = Step("event", 0, "none")
    /\ UNCHANGED <<queue_, max_capacity_, codec, rest, shutdown_, dtor, pc, task, tmo,
                   nEnq, dequeued, lastDeq, pushedSince, cleared>>

\* ------------------------------------------------------------ destructor

\* lines 11-14: shutdown_ = true under the lock
DtorSetFlag ==
    /\ dtor = "alive"
    /\ shutdown_' = TRUE
    /\ dtor' = "flagged"
    /\ last' = Step("event", 0, "none")
    /\ UNCHANGED <<queue_, max_capacity_, codec, rest, pc, task, tmo, wake, nEnq, 
                   dequeued, lastDeq, pushedSince, cleared>>

\* line 16: not_empty_.notify_all()
DtorNotifyEmpty ==
    /\ dtor = "flagged"
    /\ wake' = NotifyAll(wake, NotEmptyWaiters)
    /\ dtor' = "notified_empty"
    /\ last' = Step("event", 0, "none")
    /\ UNCHANGED <<queue_, max_capacity_, codec, rest, shutdown_, pc, task, tmo, nEnq,
                   dequeued, lastDeq, pushedSince, cleared>>

\* line 17: not_full_.notify_all()
DtorNotifyFull ==
    /\ dtor = "notified_empty"
    /\ wake' = NotifyAll(wake, NotFullWaiters)
    /\ dtor' = "notified_full"
    /\ last' = Step("event", 0, "none")
    /\ UNCHANGED <<queue_, max_capacity_, codec, rest, shutdown_, pc, task, tmo, nEnq,
                   dequeued, lastDeq, pushedSince, cleared>>

\* line 18: the destructor returns without waiting for any caller; the
\* members (mutex_, both condition variables, queue_) are destroyed
DtorReturn ==
    /\ dtor = "notified_full"
    /\ dtor' = "destroyed"
    /\ last' = Step("event", 0, "none")
    /\ UNCHANGED <<queue_, max_capacity_, codec, rest, shutdown_, pc, task, tmo, wake,
                   nEnq, dequeued, lastDeq, pushedSince, cleared>>

\* ------------------------------------------------------------------ next

Next ==
    \/ \E t \in Threads, p \in Priorities, c \in Times, tm \in Timeouts :
           Enqueue(t, p, c, tm)
    \/ \E t \in Threads : EnqueueWake(t)
    \/ \E t \in Threads, tm \in Timeouts : Dequeue(t, tm)
    \/ \E t \in Threads : DequeueWake(t)
    \/ \E t \in Threads : Peek(t)
    \/ \E t \in Threads : Clear(t)
    \/ \E t \in Threads : SpuriousWake(t)
    \/ \E t \in Threads : Timeout(t)
    \/ DtorSetFlag
    \/ DtorNotifyEmpty
    \/ DtorNotifyFull
    \/ DtorReturn

Spec == Init /\ [][Next]_vars

\* Thread scheduling is weakly fair: a thread that wait_for has woken
\* (notified, spuriously, or by its timeout) eventually re-takes mutex_ and
\* runs the rest of its call.  Nothing is assumed about when callers make
\* new calls, when timeouts expire, or when the owner destroys the queue.
FairSpec ==
    /\ Spec
    /\ \A t \in Threads : WF_vars(EnqueueWake(t)) /\ WF_vars(DequeueWake(t))

\* ====================================================== task codec: steps

\* the inputs
Strings == {"", "a"}
TimePoints == {-(TicksPerSecond + 500000), 0, 1, TicksPerSecond + 500000,
               IntMax * TicksPerSecond + 999999,
               (IntMax + 1) * TicksPerSecond}
Tasks ==
    [id : Strings, type : {"", "t"}, payload : {"", "p"},
     priority : {HIGH, NORMAL, LOW}, status : {PENDING, CANCELLED},
     retry_count : {0, IntMax}, max_retries : {IntMin, 0, 3},
     created_at : TimePoints, updated_at : {0, IntMax * TicksPerSecond + 999999},
     worker_id : {"", "w"}]

\* an envelope with no member at its default
RefDoc ==
    Task_to_json([id |-> "a", type |-> "t", payload |-> "p",
                  priority |-> LOW, status |-> CANCELLED, retry_count |-> 1,
                  max_retries |-> 2, created_at |-> TicksPerSecond,
                  updated_at |-> 2 * TicksPerSecond, worker_id |-> "w"])

\* what a member of a received object can be
JsonValues ==
    {JNull, JString(""), JString("a"), JInteger(-1), JInteger(0),
     JInteger(IntMax), JInteger(IntMax + 1), JInteger(WideMax)}

\* the unknown member
ExtraValues == {Absent, JString("x")}

\* the objects received: RefDoc with any set of members missing, and RefDoc
\* with one member replaced by any value; each with and without the
\* unknown member
Docs ==
    {JObject([k \in Keys \cup {"extra"} |->
                 IF k = "extra" THEN x
                 ELSE IF k \in present THEN RefDoc.f[k] ELSE Absent]) :
         present \in SUBSET Keys, x \in ExtraValues}
    \cup
    {JObject([k \in Keys \cup {"extra"} |->
                 IF k = "extra" THEN x
                 ELSE IF k = k0 THEN v0 ELSE RefDoc.f[k]]) :
         k0 \in Keys, v0 \in JsonValues, x \in ExtraValues}

QueueUnused == UNCHANGED <<queueVars, rest>>

TaskInit ==
    /\ cpc = "start"
    /\ CodecIdle
    /\ RestIdle
    /\ queue_ = <<>>
    /\ max_capacity_ = 0
    /\ shutdown_ = FALSE
    /\ dtor = "alive"
    /\ pc = [t \in Threads |-> "idle"]
    /\ task = [t \in Threads |-> NoTask]
    /\ tmo = [t \in Threads |-> 0]
    /\ wake = [t \in Threads |-> "running"]
    /\ last = Step("init", 0, "none")
    /\ nEnq = 0
    /\ dequeued = EmptyBag
    /\ lastDeq = [priority |-> MEDIUM, seq |-> 0]
    /\ pushedSince = FALSE
    /\ cleared = {}

\* the caller has a Task with whatever field values
MakeTask ==
    /\ cpc = "start"
    /\ t_in' \in Tasks
    /\ cpc' = "task"
    /\ UNCHANGED <<wire, t_out>>
    /\ QueueUnused

\* the arguments of a call of Task::create and the reading of the clock
CreateArgs(ty, pl, pr, mr, now) ==
    [ok |-> TRUE, what |-> "create",
     task |-> [NoRec EXCEPT !.type = ty, !.payload = pl, !.priority = pr,
                            !.max_retries = mr, !.created_at = now]]

\* the caller builds its task with Task::create (main.cpp line 11); t_out
\* keeps what it was called with
Create ==
    /\ cpc = "start"
    /\ \E ty \in {"", "t"}, pl \in {"", "p"}, pr \in {HIGH, NORMAL, LOW},
          mr \in {IntMin, 0, 3}, now \in TimePoints, d \in {0, 10, 15},
          v \in {8, 11} :
           /\ t_in' = Task_create(ty, pl, pr, mr, now, d, v)
           /\ t_out' = CreateArgs(ty, pl, pr, mr, now)
    /\ cpc' = "created"
    /\ UNCHANGED wire
    /\ QueueUnused

\* task.to_json() (main.cpp line 25)
Serialize ==
    /\ cpc \in {"task", "created"}
    /\ wire' = Task_to_json(t_in)
    /\ t_out' = NoResult
    /\ cpc' = "json"
    /\ UNCHANGED t_in
    /\ QueueUnused

\* json.dump() (main.cpp line 46)
Dump ==
    /\ cpc = "json"
    /\ wire.kind = "object"
    /\ t_out = NoResult
    /\ wire' = dump(wire)
    /\ cpc' = "text"
    /\ UNCHANGED <<t_in, t_out>>
    /\ QueueUnused

\* an object arrives from elsewhere
Receive ==
    /\ cpc = "start"
    /\ wire' \in Docs
    /\ cpc' = "json"
    /\ UNCHANGED <<t_in, t_out>>
    /\ QueueUnused

\* text that is not JSON arrives
ReceiveGarbage ==
    /\ cpc = "start"
    /\ wire' = Garbage
    /\ cpc' = "text"
    /\ UNCHANGED <<t_in, t_out>>
    /\ QueueUnused

\* nlohmann::json::parse(*popped) (main.cpp line 55): parse_error leaves
\* main, nothing catches it
Parse ==
    /\ cpc = "text"
    /\ IF ParseThrows(wire)
       THEN /\ t_out' = Thrown("parse_error")
            /\ cpc' = "done"
            /\ UNCHANGED wire
       ELSE /\ wire' = parse(wire)
            /\ t_out' = [NoResult EXCEPT !.what = "parsed"]
            /\ cpc' = "json"
    /\ UNCHANGED t_in
    /\ QueueUnused

\* string_to_json(str) (json_utils.cpp lines 10-16)
StringToJson ==
    /\ cpc = "text"
    /\ wire' = string_to_json(wire)
    /\ t_out' = [NoResult EXCEPT !.what = "parsed"]
    /\ cpc' = "json"
    /\ UNCHANGED t_in
    /\ QueueUnused

\* Task::from_json(j) (main.cpp lines 30 and 55)
Deserialize ==
    /\ cpc = "json"
    /\ t_out' = Task_from_json(wire)
    /\ cpc' = "done"
    /\ UNCHANGED <<t_in, wire>>
    /\ QueueUnused

TaskNext ==
    \/ MakeTask
    \/ Create
    \/ Serialize
    \/ Dump
    \/ Receive
    \/ ReceiveGarbage
    \/ Parse
    \/ StringToJson
    \/ Deserialize

TaskSpec == TaskInit /\ [][TaskNext]_vars

\* ==================================================== sample codec: steps

\* no TaskQueue is in use and no task is under conversion
QueueOff ==
    /\ queue_ = <<>>
    /\ max_capacity_ = 0
    /\ shutdown_ = FALSE
    /\ dtor = "alive"
    /\ pc = [t \in Threads |-> "idle"]
    /\ task = [t \in Threads |-> NoTask]
    /\ tmo = [t \in Threads |-> 0]
    /\ wake = [t \in Threads |-> "running"]
    /\ last = Step("init", 0, "none")
    /\ nEnq = 0
    /\ dequeued = EmptyBag
    /\ lastDeq = [priority |-> MEDIUM, seq |-> 0]
    /\ pushedSince = FALSE
    /\ cleared = {}
    /\ cpc = "off"
    /\ CodecIdle

\* the instants a sample can carry, in ticks: whole microseconds, instants
\* between two microseconds, before and after the epoch, and both ends of
\* the range
SampleTimes ==
    {0, 1, NanosPerMicro - 1, NanosPerMicro, NanosPerMicro + 1,
     12 * NanosPerMicro + 500, Int64Max * NanosPerMicro + (NanosPerMicro - 1),
     -1, -(NanosPerMicro - 1), -NanosPerMicro, -(NanosPerMicro + 1),
     Int64Min * NanosPerMicro}

\* doubles, as the bit patterns they are
Doubles == {"0.0", "23.5", "1e308", "-1.5"}
Units == {"", "unitless", "celsius"}
SequenceIds == {0, 1, UIntMax - 1, UIntMax}

Samples ==
    [timestamp : SampleTimes, value : Doubles, unit : Units,
     sequence_id : SequenceIds]

\* binary data from elsewhere: not a message, an empty message, a message
\* with a field of unknown number, a message with a field written twice
OtherBytes ==
    {BadBytes,
     [ok |-> TRUE, fields |-> <<>>],
     [ok |-> TRUE, fields |-> <<[num |-> 3, n |-> 0, s |-> "celsius"],
                                [num |-> 9, n |-> 1, s |-> ""]>>],
     [ok |-> TRUE, fields |-> <<[num |-> 4, n |-> 1, s |-> ""],
                                [num |-> 4, n |-> UIntMax, s |-> ""]>>]}

SampleUnused == UNCHANGED <<queueVars, codec, broker, worker, uuid>>

SampleInit ==
    /\ QueueOff
    /\ BrokerOff
    /\ WorkerOff
    /\ UuidOff
    /\ spc = "start"
    /\ SampleIdle

\* the caller has a sample with whatever field values
MakeSample ==
    /\ spc = "start"
    /\ s_in' \in Samples
    /\ spc' = "sample"
    /\ UNCHANGED <<bytes, s_out>>
    /\ SampleUnused

\* binary_data = ProtoAdapter::serialize(sample)
Encode ==
    /\ spc = "sample"
    /\ bytes' = serialize(s_in)
    /\ spc' = "bytes"
    /\ UNCHANGED <<s_in, s_out>>
    /\ SampleUnused

\* binary data that no serialize of this program produced arrives
ReceiveBytes ==
    /\ spc = "start"
    /\ bytes' \in OtherBytes
    /\ spc' = "received"
    /\ UNCHANGED <<s_in, s_out>>
    /\ SampleUnused

\* restored = ProtoAdapter::deserialize(binary_data)
Decode ==
    /\ spc \in {"bytes", "received"}
    /\ s_out' = deserialize(bytes)
    /\ spc' = IF spc = "bytes" THEN "done" ELSE "decoded"
    /\ UNCHANGED <<s_in, bytes>>
    /\ SampleUnused

SampleNext ==
    \/ MakeSample
    \/ Encode
    \/ ReceiveBytes
    \/ Decode

SampleSpec == SampleInit /\ [][SampleNext]_vars


\* ================================================================ claims

\* a step in which some dequeue returned a task
DequeueReturned == dequeued' # dequeued

\* the seqs held in the heap
InQueue == {e.seq : e \in Entries(queue_)}

\* the entry of the heap a returned (priority, seq) pair names
Held(d) == CHOOSE e \in Entries(queue_) : e.seq = d.seq

\* C1: every successful dequeue returns a task that was held and whose
\* priority value is the lowest among all tasks held at that instant; and
\* when no enqueue succeeded since the previous dequeue, the priority value
\* returned is not below the previous one (non-decreasing pop order).
C1_HighestPriorityFirst ==
    [][DequeueReturned =>
          /\ \E e \in Entries(queue_) :
                 e.seq = lastDeq'.seq /\ e.priority = lastDeq'.priority
          /\ \A e \in Entries(queue_) : lastDeq'.priority <= e.priority
          /\ (lastDeq.seq # 0 /\ ~pushedSince) =>
                 lastDeq.priority <= lastDeq'.priority]_vars

\* a HIGH task was just returned ahead of a lower-priority task that had
\* been enqueued before it
C1_Witness ==
    /\ last.res = "task"
    /\ lastDeq.priority = HIGH
    /\ \E e \in Entries(queue_) : e.priority > HIGH /\ e.seq < lastDeq.seq

\* C2 (as claimed): of two tasks of equal priority held together, the one
\* whose enqueue succeeded first is dequeued first.
C2_FifoByEnqueueOrder ==
    [][DequeueReturned =>
          \A e \in Entries(queue_) :
              e.priority = lastDeq'.priority => lastDeq'.seq <= e.seq]_vars

C4_SizeWithinCapacity ==
    max_capacity_ > 0 => Len(queue_) <= max_capacity_

\* the bounded queue is full, one producer is blocked in enqueue, and the
\* destructor has not run
C4_Witness ==
    /\ max_capacity_ > 0
    /\ Len(queue_) = max_capacity_
    /\ \E t \in Threads : pc[t] = "enq_wait"
    /\ dtor = "alive"

\* C5: the tasks enqueued so far are exactly those dequeued, those still
\* held and those cleared, each counted once; so no task is returned
\* twice, and once the queue is empty and nothing was cleared every
\* enqueued task has been dequeued exactly once.
C5_NoLossNoDuplication ==
    /\ Cardinality(InQueue) = Len(queue_)
    /\ \A n \in BagToSet(dequeued) : CopiesIn(n, dequeued) = 1
    /\ InQueue \cap BagToSet(dequeued) = {}
    /\ InQueue \cap cleared = {}
    /\ BagToSet(dequeued) \cap cleared = {}
    /\ InQueue \cup BagToSet(dequeued) \cup cleared = 1..nEnq

\* consumers have drained a queue into which several tasks were enqueued
C5_Witness ==
    /\ nEnq >= 3
    /\ Len(queue_) = 0
    /\ cleared = {}
    /\ BagCardinality(dequeued) = nEnq

\* the queue is bounded and at capacity / holds nothing
IsFull == max_capacity_ > 0 /\ Len(queue_) >= max_capacity_
IsEmpty == Len(queue_) = 0

\* thread t, woken inside wait_for, re-took the lock in this step
Resumed(t, where) ==
    /\ pc[t] = where
    /\ wake[t] \in {"notified", "timeout"}
    /\ pc'[t] # pc[t] \/ wake'[t] # wake[t]

\* C6: a call with timeout zero never blocks: no thread changes position,
\* nobody is ever inside wait_for with a zero timeout, enqueue(task, 0) on a
\* full bounded queue returns false and dequeue(0) on an empty queue returns
\* absent, both leaving the queue as it was.
C6_ZeroTimeoutNeverWaits ==
    [][/\ (last'.op \in {"enqueue", "dequeue"} /\ last'.tmo = 0) =>
              (last'.res # "wait" /\ pc' = pc)
       /\ (last'.op = "enqueue" /\ last'.tmo = 0 /\ IsFull) =>
              (last'.res = "false" /\ queue_' = queue_)
       /\ (last'.op = "dequeue" /\ last'.tmo = 0 /\ IsEmpty) =>
              (last'.res = "absent" /\ queue_' = queue_)
       /\ \A t \in Threads :
              pc'[t] \in {"enq_wait", "deq_wait"} => tmo'[t] # 0]_vars

\* enqueue(task, 0) has just been refused by a full, live queue while the
\* other thread is blocked in a positive-timeout enqueue
C6_Witness ==
    /\ last = Step("enqueue", 0, "false")
    /\ IsFull
    /\ ~shutdown_
    /\ \E t \in Threads : pc[t] = "enq_wait"

\* C7: enqueue with a positive timeout on a full bounded queue blocks; a
\* waiter that re-takes the lock before its timeout and finds a free slot
\* inserts its task and returns true; a false return happens only with the
\* queue shut down or with the queue full at the re-check that follows the
\* expiry of the timeout, and never changes the queue.
C7_BoundedBackpressure ==
    [][/\ (last'.op = "enqueue" /\ last'.tmo # 0 /\ IsFull /\ ~shutdown_) =>
              /\ last'.res = "wait"
              /\ queue_' = queue_
              /\ \E t \in Threads :
                     pc[t] = "idle" /\ pc'[t] = "enq_wait"
                         /\ wake'[t] = "blocked"
       /\ \A t \in Threads :
              (Resumed(t, "enq_wait") /\ wake[t] = "notified" /\ ~IsFull
                   /\ ~shutdown_) =>
                  /\ last'.res = "true"
                  /\ pc'[t] = "idle"
                  /\ Len(queue_') = Len(queue_) + 1
                  /\ \E e \in Entries(queue_') :
                         /\ e.seq = nEnq + 1
                         /\ e.priority = task[t].priority
                         /\ e.created_at = task[t].created_at
       /\ (last'.op \in {"enqueue", "enqueue_wake"} /\ last'.tmo # 0
               /\ last'.res = "false") =>
              /\ queue_' = queue_
              /\ nEnq' = nEnq
              /\ \/ shutdown_
                 \/ \E t \in Threads :
                        Resumed(t, "enq_wait") /\ wake[t] = "timeout" /\ IsFull
      ]_vars

\* a producer that had blocked on a full queue has just inserted its task
C7_Witness ==
    /\ last = Step("enqueue_wake", 1, "true")
    /\ ~shutdown_
    /\ max_capacity_ > 0

C9_ShutdownReleasesWaiters ==
    [][\A t \in Threads :
           (shutdown_ /\ pc[t] \in {"enq_wait", "deq_wait"} /\ pc'[t] # pc[t]) =>
               /\ pc'[t] = "idle"
               /\ pc[t] = "enq_wait" => last'.res = "false"
               /\ (pc[t] = "deq_wait" /\ IsEmpty) => last'.res = "absent"]_vars

\* C10 (as claimed): the shutdown flag is never reset, and every enqueue
\* that is called, or that wakes from its wait, with the flag set returns
\* false and leaves the queue as it was.
C10_ShutdownRefusesEnqueue ==
    [][/\ shutdown_ => shutdown_'
       /\ (shutdown_ /\ last'.op = "enqueue") =>
              (last'.res = "false" /\ queue_' = queue_)
       /\ \A t \in Threads :
              (shutdown_ /\ Resumed(t, "enq_wait")) =>
                  /\ pc'[t] = "idle"
                  /\ last'.res = "false"
                  /\ queue_' = queue_]_vars

\* a consumer is inside dequeue's wait_for and its timeout has not expired,
\* while the live queue holds a task
ConsumerWaitingOnTask ==
    /\ ~shutdown_
    /\ Len(queue_) > 0
    /\ \E t \in Threads : pc[t] = "deq_wait" /\ wake[t] # "timeout"

\* a producer is inside enqueue's wait_for and its timeout has not expired,
\* while the live bounded queue has a free slot
ProducerWaitingOnSlot ==
    /\ ~shutdown_
    /\ max_capacity_ > 0
    /\ Len(queue_) < max_capacity_
    /\ \E t \in Threads : pc[t] = "enq_wait" /\ wake[t] # "timeout"

ProgramState == <<queue_, max_capacity_, shutdown_, dtor, pc, task, tmo, wake>>

\* C12: peek changes nothing; on an empty queue it returns absent, otherwise
\* a copy of a held task that no held task is ordered before; and a dequeue
\* that is the very next step returns that same task (absent after absent).
C12_PeekIsNextDequeue ==
    [][/\ last'.op = "peek" =>
              /\ ProgramState' = ProgramState
              /\ IsEmpty <=> last'.res = "absent"
              /\ ~IsEmpty =>
                     /\ last'.res = "task"
                     /\ last'.val \in Entries(queue_)
                     /\ \A e \in Entries(queue_) :
                            ~TaskComparator(last'.val, e)
       /\ (last.op = "peek" /\ last'.op \in {"dequeue", "dequeue_wake"}
               /\ last'.res \in {"task", "absent"}) =>
              /\ last.res = "task" =>
                     (last'.res = "task" /\ lastDeq'.seq = last.val.seq
                          /\ lastDeq'.priority = last.val.priority)
              /\ last.res = "absent" => last'.res = "absent"]_vars

\* peek has just shown a task of a queue holding several, one that was not
\* the first to be enqueued, while a consumer is woken but has not run
C12_Witness ==
    /\ last.op = "peek" /\ last.res = "task"
    /\ Len(queue_) >= 2
    /\ \E e \in Entries(queue_) : e.seq < last.val.seq
    /\ \E t \in Threads : pc[t] = "deq_wait" /\ wake[t] = "notified"

\* clear() has just run on a live bounded queue and a producer it found
\* blocked is awake, not yet holding the lock
ClearWokeProducer ==
    /\ last.op = "clear"
    /\ ~shutdown_
    /\ max_capacity_ > 0
    /\ \E t \in Threads : pc[t] = "enq_wait" /\ wake[t] = "notified"

C14_ZeroCapacityUnbounded ==
    /\ [](max_capacity_ = 0 =>
              /\ ~IsFull
              /\ \A t \in Threads : pc[t] # "enq_wait")
    /\ [](max_capacity_ > 0 => (IsFull <=> size >= capacity))
    /\ [][(max_capacity_ = 0 /\ last'.op = "enqueue") =>
              /\ last'.res \in {"true", "false"}
              /\ last'.res = "false" <=> shutdown_
              /\ last'.res = "true" => Len(queue_') = Len(queue_) + 1]_vars

\* an unbounded queue has just accepted its third task from a call that
\* was ready to wait
C14_Witness ==
    /\ max_capacity_ = 0
    /\ last = Step("enqueue", 1, "true")
    /\ size >= 3

RoundTripDone ==
    /\ cpc = "done"
    /\ wire.kind = "object"
    /\ \A k \in Keys : wire.f[k].type = Task_to_json(t_in).f[k].type
    /\ \A k \in Keys : wire.f[k].v = Task_to_json(t_in).f[k].v
    /\ wire.f["extra"].type = "absent"

\* C16: from_json(to_json(t)) returns, and equals t on id, type, payload,
\* priority, status, retry_count, max_retries and worker_id.
C16_JsonRoundTrip ==
    RoundTripDone =>
        /\ t_out.ok
        /\ t_out.task.id = t_in.id
        /\ t_out.task.type = t_in.type
        /\ t_out.task.payload = t_in.payload
        /\ t_out.task.priority = t_in.priority
        /\ t_out.task.status = t_in.status
        /\ t_out.task.retry_count = t_in.retry_count
        /\ t_out.task.max_retries = t_in.max_retries
        /\ t_out.task.worker_id = t_in.worker_id

\* a task with no field at its default has come back, equal on the eight
\* fields though not on created_at
C16_Witness ==
    /\ RoundTripDone
    /\ t_in.id = "a" /\ t_in.type = "t" /\ t_in.payload = "p"
    /\ t_in.worker_id = "w" /\ t_in.priority = LOW
    /\ t_in.status = CANCELLED /\ t_in.retry_count = IntMax
    /\ t_in.max_retries = IntMin
    /\ t_out.task.created_at # t_in.created_at

\* C17 (as claimed): after serialize-then-deserialize, created_at and
\* updated_at differ from the original by at most one microsecond (one tick
\* of the model's clock).
C17_TimestampsWithinMicrosecond ==
    (RoundTripDone /\ t_out.ok) =>
        /\ t_out.task.created_at - t_in.created_at \in -1..1
        /\ t_out.task.updated_at - t_in.updated_at \in -1..1

\* the member of a returned task that corresponds to key k
FieldOf(t, k) ==
    CASE k = "id" -> t.id
      [] k = "type" -> t.type
      [] k = "payload" -> t.payload
      [] k = "priority" -> t.priority
      [] k = "status" -> t.status
      [] k = "retry_count" -> t.retry_count
      [] k = "max_retries" -> t.max_retries
      [] k = "created_at" -> t.created_at
      [] k = "updated_at" -> t.updated_at
      [] k = "worker_id" -> t.worker_id

\* the documented default of key k
DefaultOf(k) ==
    CASE k \in StringKeys -> ""
      [] k = "max_retries" -> 3
      [] k = "priority" -> MEDIUM
      [] k = "status" -> PENDING
      [] OTHER -> 0

\* the value the document gives for key k, as the field's type holds it
\* (a timestamp of s seconds is the time point s seconds after the epoch)
GivenFor(j, k) ==
    IF k \in {"created_at", "updated_at"}
    THEN j.f[k].v * TicksPerSecond
    ELSE j.f[k].v

\* C18 (as claimed): whenever from_json returns a task for an object, each
\* missing field has its documented default and each field that is present
\* has the value the object gives; the unknown member changes nothing.
C18_DefaultsAndPresentFields ==
    (cpc = "done" /\ wire.kind = "object" /\ t_out.ok) =>
        \A k \in Keys :
            FieldOf(t_out.task, k) =
                IF wire.f[k].type = "absent" THEN DefaultOf(k) ELSE GivenFor(wire, k)

\* C19 (as claimed): deserializing an object never fails, and text that is
\* not JSON ends in the typed result BadEnvelope: no exception, no task.
C19_NeverThrowsBadEnvelopeTyped ==
    cpc = "done" =>
        /\ t_out.what \in {"task", "BadEnvelope"}
        /\ wire.kind = "object" => t_out.what = "task"
        /\ wire.kind # "object" => t_out.what = "BadEnvelope"

\* C20: Task::create returns a task with a non-empty id, the one
\* generate_uuid made, the type, payload, priority and max_retries it was
\* given, status PENDING, retry_count 0, an empty worker_id, and updated_at
\* equal to created_at, the reading of the clock.
C20_CreateInitialState ==
    cpc = "created" =>
        /\ Len(t_in.id) > 0
        /\ \E d \in 0..15, v \in 8..11 : t_in.id = generate_uuid(d, v)
        /\ t_in.type = t_out.task.type
        /\ t_in.payload = t_out.task.payload
        /\ t_in.priority = t_out.task.priority
        /\ t_in.max_retries = t_out.task.max_retries
        /\ t_in.status = PENDING
        /\ t_in.retry_count = 0
        /\ t_in.worker_id = ""
        /\ t_in.created_at = t_out.task.created_at
        /\ t_in.updated_at = t_in.created_at

\* create("t", "p", HIGH, a negative max_retries) at a time after the epoch
C20_Witness ==
    /\ cpc = "created"
    /\ t_out.what = "create"
    /\ t_in.type = "t" /\ t_in.payload = "p" /\ t_in.priority = HIGH
    /\ t_in.max_retries = IntMin
    /\ t_in.created_at > 0
    /\ Len(t_in.id) = 36

\* the waiters of one condition variable that this step takes from blocked
\* to notified
NewlyNotified(where) ==
    {u \in Threads :
        pc[u] = where /\ wake[u] = "blocked" /\ wake'[u] = "notified"}

EnqOps == {"enqueue", "enqueue_wake"}
DeqOps == {"dequeue", "dequeue_wake"}

C30_RecheckAndRewait ==
    [][\A t \in Threads :
        /\ (pc[t] = "enq_wait" /\ wake[t] = "notified" /\ ~NotFullPred
                /\ wake'[t] # wake[t]) =>
              /\ pc'[t] = "enq_wait" /\ wake'[t] = "blocked"
              /\ queue_' = queue_
        /\ (pc[t] = "deq_wait" /\ wake[t] = "notified" /\ ~NotEmptyPred
                /\ wake'[t] # wake[t]) =>
              /\ pc'[t] = "deq_wait" /\ wake'[t] = "blocked"
              /\ queue_' = queue_
        /\ (pc[t] = "enq_wait" /\ pc'[t] = "idle" /\ last'.res = "false") =>
              wake[t] = "timeout" \/ shutdown_
        /\ (pc[t] = "deq_wait" /\ pc'[t] = "idle" /\ last'.res = "absent") =>
              wake[t] = "timeout" \/ shutdown_
        /\ (pc[t] = "enq_wait" /\ pc'[t] = "idle" /\ last'.res = "true") =>
              /\ Len(queue_) < max_capacity_
              /\ Len(queue_') <= max_capacity_
        /\ (pc[t] = "deq_wait" /\ pc'[t] = "idle" /\ last'.res = "task") =>
              Len(queue_) > 0]_vars

\* a consumer was woken for a task that another thread's dequeue took first:
\* it has gone back to waiting on the empty queue
C30_Witness ==
    /\ last.op = "dequeue_wake" /\ last.res = "wait"
    /\ Len(queue_) = 0
    /\ dequeued # EmptyBag
    /\ ~shutdown_
    /\ \E t \in Threads : pc[t] = "deq_wait" /\ wake[t] = "blocked"

MemOnly == UNCHANGED <<queueVars, codec, sample, worker, uuid, redis_, r_str, r_list,
                       r_set, r_zset, r_ctr, r_ttl, bwait, setLog>>
RedisOnly == UNCHANGED <<queueVars, codec, sample, worker, uuid, connected_, kv_store,
                         lists>>

\* caller c can start a call: it is not inside one, and calls are left
CanCall(c) == bLeft > 0 /\ bwait[c] = "no"

\* a call returns: it is the last call, and one call fewer is left
Returns(call) ==
    /\ bres' = call
    /\ bLeft' = bLeft - 1

\* the number of elements of caller c in a sequence
RECURSIVE CountOf(_, _)
CountOf(c, seq) ==
    IF seq = <<>> THEN 0
    ELSE (IF Producer(Head(seq)) = c THEN 1 ELSE 0) + CountOf(c, Tail(seq))

Mem_connect(c) ==
    /\ CanCall(c)
    /\ connected_' = TRUE
    /\ Returns(Call("mem", c, "connect", "", "ok", RetBool(TRUE)))
    /\ UNCHANGED <<kv_store, lists, hist>>
    /\ MemOnly

Mem_ping(c) ==
    /\ CanCall(c)
    /\ Returns(Call("mem", c, "ping", "",
                     IF connected_ THEN "ok" ELSE "error",
                     RetStr(IF connected_ THEN "PONG" ELSE "")))
    /\ UNCHANGED <<connected_, kv_store, lists, hist>>
    /\ MemOnly

Mem_rpush(c) ==
    /\ CanCall(c)
    /\ CountOf(c, hist.mem_pushed) < MaxPush
    /\ LET v == Elems[c][CountOf(c, hist.mem_pushed) + 1] IN
       IF ~connected_
       THEN /\ Returns(Call("mem", c, "rpush", "k", "error", RetBool(FALSE)))
            /\ UNCHANGED <<lists, hist>>
       ELSE /\ lists' = List(Append(lists.items, v))
            /\ hist' = [hist EXCEPT !.mem_pushed = Append(@, v)]
            /\ Returns(Call("mem", c, "rpush", "k", "ok", RetBool(TRUE)))
    /\ UNCHANGED <<connected_, kv_store>>
    /\ MemOnly

\* blpop taking the element pushed last
Mem_blpop_Back(c) ==
    /\ CanCall(c)
    /\ IF ~connected_
       THEN /\ Returns(Call("mem", c, "blpop", "k", "error", RetOpt(Nothing)))
            /\ UNCHANGED <<lists, hist>>
       ELSE IF ~lists.has \/ lists.items = <<>>
       THEN /\ Returns(Call("mem", c, "blpop", "k", "ok", RetOpt(Nothing)))
            /\ UNCHANGED <<lists, hist>>
       ELSE /\ lists' = List(SubSeq(lists.items, 1, Len(lists.items) - 1))
            /\ hist' = [hist EXCEPT
                           !.mem_popped = Append(@, lists.items[Len(lists.items)])]
            /\ Returns(Call("mem", c, "blpop", "k", "ok",
                            RetOpt(Some(lists.items[Len(lists.items)]))))
    /\ UNCHANGED <<connected_, kv_store>>
    /\ MemOnly

Mem_blpop(c) ==
    /\ CanCall(c)
    /\ IF ~connected_
       THEN /\ Returns(Call("mem", c, "blpop", "k", "error", RetOpt(Nothing)))
            /\ UNCHANGED <<lists, hist>>
       ELSE IF ~lists.has \/ lists.items = <<>>
       THEN /\ Returns(Call("mem", c, "blpop", "k", "ok", RetOpt(Nothing)))
            /\ UNCHANGED <<lists, hist>>
       ELSE /\ lists' = List(Tail(lists.items))
            /\ hist' = [hist EXCEPT !.mem_popped = Append(@, Head(lists.items))]
            /\ Returns(Call("mem", c, "blpop", "k", "ok",
                            RetOpt(Some(Head(lists.items)))))
    /\ UNCHANGED <<connected_, kv_store>>
    /\ MemOnly

Mem_set(c, v) ==
    /\ CanCall(c)
    /\ IF ~connected_
       THEN /\ Returns(Call("mem", c, "set", "k", "error", RetBool(FALSE)))
            /\ UNCHANGED kv_store
       ELSE /\ kv_store' = Some(v)
            /\ Returns(Call("mem", c, "set", "k", "ok", RetBool(TRUE)))
    /\ UNCHANGED <<connected_, lists, hist>>
    /\ MemOnly

Mem_get(c) ==
    /\ CanCall(c)
    /\ Returns(Call("mem", c, "get", "k",
                     IF connected_ THEN "ok" ELSE "error",
                     RetOpt(IF connected_ THEN kv_store ELSE Nothing)))
    /\ UNCHANGED <<connected_, kv_store, lists, hist>>
    /\ MemOnly

Mem_del(c) ==
    /\ CanCall(c)
    /\ IF ~connected_
       THEN /\ Returns(Call("mem", c, "del", "k", "error", RetBool(FALSE)))
            /\ UNCHANGED <<kv_store, lists>>
       ELSE /\ kv_store' = Nothing
            /\ lists' = NoList
            /\ Returns(Call("mem", c, "del", "k", "ok",
                            RetBool(kv_store # Nothing \/ lists.has)))
    /\ UNCHANGED <<connected_, hist>>
    /\ MemOnly

Mem_llen(c) ==
    /\ CanCall(c)
    /\ Returns(Call("mem", c, "llen", "k",
                     IF connected_ THEN "ok" ELSE "error",
                     RetInt(IF ~connected_ THEN -1
                            ELSE IF ~lists.has THEN 0
                            ELSE Len(lists.items))))
    /\ UNCHANGED <<connected_, kv_store, lists, hist>>
    /\ MemOnly

\* ============================================== Redis-backed client: calls
\* a call sends one command, which the server runs atomically. It ends
\*   "null"  : redis_ is null (a moved-from client), nothing is sent;
\*   "ok"    : the server ran the command and the reply arrived;
\*   "error" : sw::redis::Error before the server ran the command;
\*   "lost"  : the server ran the command, the reply did not arrive within
\*             socket_timeout: sw::redis::Error as well.
Hows == IF redis_ THEN {"ok", "error", "lost"} ELSE {"null"}
\* a command that changes nothing: a lost reply is like an error
ReadHows == IF redis_ THEN {"ok", "error"} ELSE {"null"}
Applied(how) == how \in {"ok", "lost"}

StrOnly == UNCHANGED <<redis_, r_list, r_set, r_zset, r_ctr, bwait, hist, setLog>>
ListOnly == UNCHANGED <<redis_, r_str, r_ttl, r_set, r_zset, r_ctr, setLog>>
SetOnly == UNCHANGED <<redis_, r_str, r_ttl, r_list, r_zset, r_ctr, bwait, hist>>
ZsetOnly == UNCHANGED <<redis_, r_str, r_ttl, r_list, r_set, r_ctr, bwait, hist, setLog>>
CtrOnly == UNCHANGED <<redis_, r_str, r_ttl, r_list, r_set, r_zset, bwait, hist, setLog>>
ServerSame == UNCHANGED <<redis_, r_str, r_ttl, r_list, r_set, r_zset, r_ctr, bwait, hist, setLog>>

\* the moved-from state of the defaulted move constructor and assignment
Redis_move ==
    /\ redis_
    /\ \A c \in Clients : bwait[c] = "no"
    /\ redis_' = FALSE
    /\ UNCHANGED <<r_str, r_ttl, r_list, r_set, r_zset, r_ctr, bwait, bres,
                   hist, setLog, bLeft>>
    /\ RedisOnly

Redis_ping(c, how) ==
    /\ CanCall(c)
    /\ how \in ReadHows
    /\ Returns(Call("redis", c, "ping", "", how, RetBool(how = "ok")))
    /\ ServerSame
    /\ RedisOnly

\* ---- strings
Redis_set(c, v, ttl_seconds, how) ==
    /\ CanCall(c)
    /\ how \in Hows
    /\ IF Applied(how)
       THEN /\ r_str' = Some(v)
            /\ r_ttl' = IF ttl_seconds > 0 THEN ttl_seconds ELSE NoExpiry
       ELSE UNCHANGED <<r_str, r_ttl>>
    /\ Returns(Call("redis", c, "set", "task", how, RetBool(how = "ok")))
    /\ StrOnly
    /\ RedisOnly

Redis_get(c, how) ==
    /\ CanCall(c)
    /\ how \in ReadHows
    /\ Returns(Call("redis", c, "get", "task", how,
                     RetOpt(IF how = "ok" THEN r_str ELSE Nothing)))
    /\ ServerSame
    /\ RedisOnly

Redis_del(c, how) ==
    /\ CanCall(c)
    /\ how \in Hows
    /\ IF Applied(how)
       THEN /\ r_str' = Nothing
            /\ r_ttl' = NoExpiry
       ELSE UNCHANGED <<r_str, r_ttl>>
    /\ Returns(Call("redis", c, "del", "task", how,
                     RetInt(IF how = "ok" /\ r_str # Nothing THEN 1 ELSE 0)))
    /\ StrOnly
    /\ RedisOnly

Redis_exists(c, how) ==
    /\ CanCall(c)
    /\ how \in ReadHows
    /\ Returns(Call("redis", c, "exists", "task", how,
                     RetBool(how = "ok" /\ r_str # Nothing)))
    /\ ServerSame
    /\ RedisOnly

Redis_expire(c, seconds, how) ==
    /\ CanCall(c)
    /\ how \in Hows
    /\ r_ttl' = IF Applied(how) /\ r_str # Nothing THEN seconds ELSE r_ttl
    /\ Returns(Call("redis", c, "expire", "task", how,
                     RetBool(how = "ok" /\ r_str # Nothing)))
    /\ UNCHANGED r_str
    /\ StrOnly
    /\ RedisOnly

Redis_ttl(c, how) ==
    /\ CanCall(c)
    /\ how \in ReadHows
    /\ Returns(Call("redis", c, "ttl", "task", how,
                     RetInt(IF how # "ok" \/ r_str = Nothing THEN NoKey
                            ELSE r_ttl)))
    /\ ServerSame
    /\ RedisOnly

\* the server drops a key whose time to live has run out
KeyExpires ==
    /\ r_str # Nothing
    /\ r_ttl > 0
    /\ r_str' = Nothing
    /\ r_ttl' = NoExpiry
    /\ UNCHANGED <<bres, bLeft>>
    /\ StrOnly
    /\ RedisOnly

\* ---- lists
\* lpush that sends the command again after an error
Redis_lpush_Retry(c, how) ==
    /\ CanCall(c)
    /\ how \in Hows
    /\ CountOf(c, hist.r_pushed) < MaxPush
    /\ LET v == Elems[c][CountOf(c, hist.r_pushed) + 1] IN
       /\ r_list' = <<v>> \o r_list
       /\ hist' = [hist EXCEPT !.r_pushed = Append(@, v)]
    /\ Returns(Call("redis", c, "lpush", "queue", how,
                     RetInt(IF how = "ok" THEN Len(r_list) + 1 ELSE 0)))
    /\ UNCHANGED bwait
    /\ ListOnly
    /\ RedisOnly

Redis_lpush(c, how) ==
    /\ CanCall(c)
    /\ how \in Hows
    /\ CountOf(c, hist.r_pushed) < MaxPush
    /\ LET v == Elems[c][CountOf(c, hist.r_pushed) + 1] IN
       IF Applied(how)
       THEN /\ r_list' = <<v>> \o r_list
            /\ hist' = [hist EXCEPT !.r_pushed = Append(@, v)]
       ELSE UNCHANGED <<r_list, hist>>
    /\ Returns(Call("redis", c, "lpush", "queue", how,
                     RetInt(IF how = "ok" THEN Len(r_list) + 1 ELSE 0)))
    /\ UNCHANGED bwait
    /\ ListOnly
    /\ RedisOnly

\* the element at the tail and the list without it
Last(seq) == seq[Len(seq)]
Front(seq) == SubSeq(seq, 1, Len(seq) - 1)

\* the server pops the tail; the caller gets it when the reply arrives
PopTail(how) ==
    /\ r_list' = Front(r_list)
    /\ hist' = [hist EXCEPT
                   !.r_removed = Append(@, Last(r_list)),
                   !.r_popped = IF how = "ok" THEN Append(@, Last(r_list)) ELSE @]

Redis_rpop(c, how) ==
    /\ CanCall(c)
    /\ how \in Hows
    /\ IF Applied(how) /\ r_list # <<>>
       THEN PopTail(how)
       ELSE UNCHANGED <<r_list, hist>>
    /\ Returns(Call("redis", c, "rpop", "queue", how,
                     RetOpt(IF how = "ok" /\ r_list # <<>>
                            THEN Some(Last(r_list)) ELSE Nothing)))
    /\ UNCHANGED bwait
    /\ ListOnly
    /\ RedisOnly

\* brpop: returns at once on a null client, an error or a non-empty list,
\* else the caller blocks at the server
Redis_brpop(c, timeout_seconds, how) ==
    /\ CanCall(c)
    /\ how \in Hows
    /\ IF Applied(how) /\ r_list = <<>>
       THEN /\ how = "ok"
            /\ bwait' = [bwait EXCEPT
                            ![c] = IF timeout_seconds > 0 THEN "timed" ELSE "forever"]
            /\ bLeft' = bLeft - 1
            /\ UNCHANGED <<r_list, hist, bres>>
       ELSE /\ IF Applied(how)
               THEN PopTail(how)
               ELSE UNCHANGED <<r_list, hist>>
            /\ Returns(Call("redis", c, "brpop", "queue", how,
                            RetOpt(IF how = "ok" THEN Some(Last(r_list))
                                   ELSE Nothing)))
            /\ UNCHANGED bwait
    /\ ListOnly
    /\ RedisOnly

\* a blocked brpop is served: the server pops the tail for it
BrpopServed(c, how) ==
    /\ bwait[c] # "no"
    /\ how \in {"ok", "lost"}
    /\ r_list # <<>>
    /\ PopTail(how)
    /\ bwait' = [bwait EXCEPT ![c] = "no"]
    /\ bres' = Call("redis", c, "brpop", "queue", how,
                     RetOpt(IF how = "ok" THEN Some(Last(r_list)) ELSE Nothing))
    /\ UNCHANGED bLeft
    /\ ListOnly
    /\ RedisOnly

\* a blocked brpop ends without an element: the server's timeout of a timed
\* call (a nil reply), or the client's socket_timeout (sw::redis::Error)
BrpopTimeout(c, how) ==
    /\ bwait[c] # "no"
    /\ how \in {"ok", "error"}
    /\ how = "ok" => bwait[c] = "timed"
    /\ bwait' = [bwait EXCEPT ![c] = "no"]
    /\ bres' = Call("redis", c, "brpop", "queue", how, RetOpt(Nothing))
    /\ UNCHANGED <<r_list, hist, bLeft>>
    /\ ListOnly
    /\ RedisOnly

Redis_llen(c, how) ==
    /\ CanCall(c)
    /\ how \in ReadHows
    /\ Returns(Call("redis", c, "llen", "queue", how,
                     RetInt(IF how = "ok" THEN Len(r_list) ELSE 0)))
    /\ ServerSame
    /\ RedisOnly

\* lrange(key, 0, -1): the whole list
Redis_lrange(c, how) ==
    /\ CanCall(c)
    /\ how \in ReadHows
    /\ Returns(Call("redis", c, "lrange", "queue", how,
                     RetList(IF how = "ok" THEN r_list ELSE <<>>)))
    /\ ServerSame
    /\ RedisOnly

\* ---- sets
SetEntry(op, c, m, how, ret) ==
    [op |-> op, by |-> c, member |-> m, how |-> how, ret |-> ret,
     before |-> r_set, after |-> r_set']

\* sadd counting every add the server ran, new member or not
Redis_sadd_Always(c, m, how) ==
    /\ CanCall(c)
    /\ how \in Hows
    /\ r_set' = IF Applied(how) THEN r_set \cup {m} ELSE r_set
    /\ LET ret == IF how = "ok" THEN 1 ELSE 0 IN
       /\ setLog' = Append(setLog, SetEntry("sadd", c, m, how, ret))
       /\ Returns(Call("redis", c, "sadd", "dedup", how, RetInt(ret)))
    /\ SetOnly
    /\ RedisOnly

Redis_sadd(c, m, how) ==
    /\ CanCall(c)
    /\ how \in Hows
    /\ r_set' = IF Applied(how) THEN r_set \cup {m} ELSE r_set
    /\ LET ret == IF how = "ok" /\ m \notin r_set THEN 1 ELSE 0 IN
       /\ setLog' = Append(setLog, SetEntry("sadd", c, m, how, ret))
       /\ Returns(Call("redis", c, "sadd", "dedup", how, RetInt(ret)))
    /\ SetOnly
    /\ RedisOnly

Redis_sismember(c, m, how) ==
    /\ CanCall(c)
    /\ how \in ReadHows
    /\ Returns(Call("redis", c, "sismember", "dedup", how,
                     RetBool(how = "ok" /\ m \in r_set)))
    /\ ServerSame
    /\ RedisOnly

Redis_srem(c, m, how) ==
    /\ CanCall(c)
    /\ how \in Hows
    /\ r_set' = IF Applied(how) THEN r_set \ {m} ELSE r_set
    /\ LET ret == IF how = "ok" /\ m \in r_set THEN 1 ELSE 0 IN
       /\ setLog' = Append(setLog, SetEntry("srem", c, m, how, ret))
       /\ Returns(Call("redis", c, "srem", "dedup", how, RetInt(ret)))
    /\ SetOnly
    /\ RedisOnly

\* scard of IRedisClient: the cardinality of the set, 0 when the call
\* cannot complete
Redis_scard(c, how) ==
    /\ CanCall(c)
    /\ how \in ReadHows
    /\ Returns(Call("redis", c, "scard", "dedup", how,
                     RetInt(IF how = "ok" THEN Cardinality(r_set) ELSE 0)))
    /\ ServerSame
    /\ RedisOnly

\* ---- sorted sets
ZMembers == {e.member : e \in r_zset}

\* "F" < "G": the order of the members as byte strings
MemberRank(m) == IF m = "F" THEN 1 ELSE 2

\* the entry ZPOPMAX takes: the highest score, and among equal scores the
\* greatest member
ZMax ==
    CHOOSE e \in r_zset :
        \A o \in r_zset :
            \/ o.score < e.score
            \/ o.score = e.score /\ MemberRank(o.member) <= MemberRank(e.member)

Redis_zadd(c, m, score, how) ==
    /\ CanCall(c)
    /\ how \in Hows
    /\ r_zset' = IF Applied(how)
                 THEN {e \in r_zset : e.member # m}
                      \cup {[member |-> m, score |-> score]}
                 ELSE r_zset
    /\ Returns(Call("redis", c, "zadd", "priq", how,
                     RetInt(IF how = "ok" /\ m \notin ZMembers THEN 1 ELSE 0)))
    /\ ZsetOnly
    /\ RedisOnly

Redis_zpopmax(c, how) ==
    /\ CanCall(c)
    /\ how \in Hows
    /\ r_zset' = IF Applied(how) /\ r_zset # {} THEN r_zset \ {ZMax} ELSE r_zset
    /\ Returns(Call("redis", c, "zpopmax", "priq", how,
                     RetOpt(IF how = "ok" /\ r_zset # {}
                            THEN Some(ZMax.member) ELSE Nothing)))
    /\ ZsetOnly
    /\ RedisOnly

Redis_zcard(c, how) ==
    /\ CanCall(c)
    /\ how \in ReadHows
    /\ Returns(Call("redis", c, "zcard", "priq", how,
                     RetInt(IF how = "ok" THEN Cardinality(r_zset) ELSE 0)))
    /\ ServerSame
    /\ RedisOnly

\* ---- counters
CtrValue == IF r_ctr = Nothing THEN 0 ELSE r_ctr[1]

Redis_incr(c, how) ==
    /\ CanCall(c)
    /\ how \in Hows
    /\ r_ctr' = IF Applied(how) THEN Some(CtrValue + 1) ELSE r_ctr
    /\ Returns(Call("redis", c, "incr", "counter", how,
                     RetInt(IF how = "ok" THEN CtrValue + 1 ELSE 0)))
    /\ CtrOnly
    /\ RedisOnly

Redis_decr(c, how) ==
    /\ CanCall(c)
    /\ how \in Hows
    /\ r_ctr' = IF Applied(how) THEN Some(CtrValue - 1) ELSE r_ctr
    /\ Returns(Call("redis", c, "decr", "counter", how,
                     RetInt(IF how = "ok" THEN CtrValue - 1 ELSE 0)))
    /\ CtrOnly
    /\ RedisOnly

\* ======================================================= broker lists: steps
\* two callers push to and pop from the list of the in-memory client and the
\* list of a Redis server, in any interleaving

ListInit ==
    /\ QueueOff
    /\ SampleOff
    /\ WorkerOff
    /\ UuidOff
    /\ BrokerIdle
    /\ bLeft = MaxListCalls

ListNext ==
    \/ \E c \in Clients : Mem_connect(c)
    \/ \E c \in Clients : Mem_rpush(c)
    \/ \E c \in Clients : Mem_blpop(c)
    \/ \E c \in Clients, how \in {"ok", "error", "lost"} : Redis_lpush(c, how)
    \/ \E c \in Clients, how \in {"ok", "error", "lost"} : Redis_rpop(c, how)
    \/ \E c \in Clients, tm \in {0, 1}, how \in {"ok", "error", "lost"} :
           Redis_brpop(c, tm, how)
    \/ \E c \in Clients, how \in {"ok", "lost"} : BrpopServed(c, how)
    \/ \E c \in Clients, how \in {"ok", "error"} : BrpopTimeout(c, how)

ListSpec == ListInit /\ [][ListNext]_vars

\* ------------------------------------------------------------------ C27
\* seq is a prefix of full
IsPrefix(seq, full) ==
    /\ Len(seq) <= Len(full)
    /\ \A i \in 1..Len(seq) : seq[i] = full[i]

\* the elements of one producer stand in seq in the order it pushed them,
\* and no element stands in seq twice
InProducerOrder(seq) ==
    \A i, j \in 1..Len(seq) :
        i < j =>
            /\ seq[i] # seq[j]
            /\ Producer(seq[i]) = Producer(seq[j]) => SeqNo(seq[i]) < SeqNo(seq[j])

\* seq with the elements outside keep left out
RECURSIVE Restrict(_, _)
Restrict(seq, keep) ==
    IF seq = <<>> THEN <<>>
    ELSE IF Head(seq) \in keep THEN <<Head(seq)>> \o Restrict(Tail(seq), keep)
    ELSE Restrict(Tail(seq), keep)

Range(seq) == {seq[i] : i \in 1..Len(seq)}

\* C27: a broker list is FIFO. In the in-memory client (rpush, blpop) and at
\* the Redis server (lpush, rpop/brpop) the elements leave the list in the
\* order they were pushed: the popped elements are always the first pushed
\* ones, in push order; the callers receive them in that order, none twice;
\* the elements of one producer are popped in that producer's push order.
C27_ListFifo ==
    /\ IsPrefix(hist.mem_popped, hist.mem_pushed)
    /\ IsPrefix(hist.r_removed, hist.r_pushed)
    /\ hist.r_popped = Restrict(hist.r_removed, Range(hist.r_popped))
    /\ InProducerOrder(hist.mem_popped)
    /\ InProducerOrder(hist.r_popped)

\* both lists have given two elements of different producers to callers
C27_Witness ==
    /\ Len(hist.mem_popped) >= 2
    /\ Producer(hist.mem_popped[1]) # Producer(hist.mem_popped[2])
    /\ Len(hist.r_popped) >= 2
    /\ Producer(hist.r_popped[1]) # Producer(hist.r_popped[2])

\* ========================================================= dedup set: steps
\* two producers add, test and remove fingerprints in any interleaving

SetInit ==
    /\ QueueOff
    /\ SampleOff
    /\ WorkerOff
    /\ UuidOff
    /\ BrokerIdle
    /\ bLeft = MaxSetCalls

SetNext ==
    \/ \E c \in Clients, m \in Members, how \in {"ok", "error", "lost"} :
           Redis_sadd(c, m, how)
    \/ \E c \in Clients, m \in Members, how \in {"ok", "error"} :
           Redis_sismember(c, m, how)
    \/ \E c \in Clients, m \in Members, how \in {"ok", "error", "lost"} :
           Redis_srem(c, m, how)
    \/ \E c \in Clients, how \in {"ok", "error"} : Redis_scard(c, how)

SetSpec == SetInit /\ [][SetNext]_vars

\* ------------------------------------------------------------------ C24
\* the calls i..i+N-1 of the log are one round of the N producers: each
\* producer adds the same fingerprint once, the broker answers every call,
\* and the set does not hold the fingerprint when the round starts
SaddRound(i) ==
    LET end == i + Cardinality(Clients) - 1 IN
    /\ end <= Len(setLog)
    /\ \A j \in i..end :
           /\ setLog[j].op = "sadd"
           /\ setLog[j].how = "ok"
           /\ setLog[j].member = setLog[i].member
    /\ {setLog[j].by : j \in i..end} = Clients
    /\ setLog[i].member \notin setLog[i].before

\* C24: when the N producers add the same fingerprint to the dedup set at
\* the same time, the set not holding it (an empty set), exactly one call
\* returns 1, all the others return 0, and the set has 1 member afterwards.
C24_DedupOnce ==
    \A i \in 1..Len(setLog) :
        SaddRound(i) /\ setLog[i].before = {} =>
            LET round == i..(i + Cardinality(Clients) - 1) IN
            /\ Cardinality({j \in round : setLog[j].ret = 1}) = 1
            /\ \A j \in round : setLog[j].ret \in {0, 1}
            /\ Cardinality(setLog[i + Cardinality(Clients) - 1].after) = 1

\* a round is over and scard has just returned 1
C24_Witness ==
    /\ Len(setLog) = Cardinality(Clients)
    /\ SaddRound(1)
    /\ setLog[1].before = {}
    /\ bres.op = "scard"
    /\ bres.how = "ok"
    /\ bres.ret.n = 1

\* =================================================== priority sorted set: steps
\* two callers add envelopes with priority scores and pop the highest

ZsetInit ==
    /\ QueueOff
    /\ SampleOff
    /\ WorkerOff
    /\ UuidOff
    /\ BrokerIdle
    /\ bLeft = MaxZsetCalls

ZsetNext ==
    \/ \E c \in Clients, m \in Members, p \in Scores,
          how \in {"ok", "error", "lost"} : Redis_zadd(c, m, p, how)
    \/ \E c \in Clients, how \in {"ok", "error", "lost"} : Redis_zpopmax(c, how)
    \/ \E c \in Clients, how \in {"ok", "error"} : Redis_zcard(c, how)

ZsetSpec == ZsetInit /\ [][ZsetNext]_vars

\* ------------------------------------------------------------------ C26
\* the (member, score) pair IRedisClient::zpopmax declares as its result
RetPair(m, p) == [kind |-> "pair", b |-> FALSE, n |-> p, s |-> <<m>>]

\* this step is a zpopmax call the broker answers
ZpopmaxAnswered ==
    /\ bLeft' = bLeft - 1
    /\ bres'.op = "zpopmax"
    /\ bres'.how = "ok"

\* C26: a zpopmax the broker answers removes the member with the highest
\* score the sorted set holds at that instant and returns it together with
\* its score; on an empty sorted set it returns absent and removes nothing
\* (so zpopmax right after zadd(k, p, m) on an empty set returns (m, p)).
C26_ZpopmaxMemberAndScore ==
    [][ZpopmaxAnswered =>
          IF r_zset = {}
          THEN /\ bres'.ret = RetOpt(Nothing)
               /\ r_zset' = {}
          ELSE /\ \A e \in r_zset : e.score <= ZMax.score
               /\ r_zset' = r_zset \ {ZMax}
               /\ bres'.ret = RetPair(ZMax.member, ZMax.score)]_vars

\* ================================================== both clients: all calls
\* two callers use every operation of the in-memory client and of the
\* Redis-backed client, each call ending in any of the ways it can end

\* time-to-live arguments of set (0 = none) and expire
TtlSeconds == {0, 5}

BrokerInit ==
    /\ QueueOff
    /\ SampleOff
    /\ WorkerOff
    /\ UuidOff
    /\ BrokerIdle
    /\ bLeft = MaxCalls

BrokerNext ==
    \/ \E c \in Clients : Mem_connect(c)
    \/ \E c \in Clients : Mem_ping(c)
    \/ \E c \in Clients : Mem_rpush(c)
    \/ \E c \in Clients : Mem_blpop(c)
    \/ \E c \in Clients, v \in Values : Mem_set(c, v)
    \/ \E c \in Clients : Mem_get(c)
    \/ \E c \in Clients : Mem_del(c)
    \/ \E c \in Clients : Mem_llen(c)
    \/ Redis_move
    \/ KeyExpires
    \/ \E c \in Clients, how \in {"ok", "error", "lost", "null"} :
           \/ Redis_ping(c, how)
           \/ \E v \in Values, ttl_seconds \in TtlSeconds :
                  Redis_set(c, v, ttl_seconds, how)
           \/ Redis_get(c, how)
           \/ Redis_del(c, how)
           \/ Redis_exists(c, how)
           \/ \E seconds \in TtlSeconds \ {0} : Redis_expire(c, seconds, how)
           \/ Redis_ttl(c, how)
           \/ Redis_lpush(c, how)
           \/ Redis_rpop(c, how)
           \/ \E timeout_seconds \in {0, 1} : Redis_brpop(c, timeout_seconds, how)
           \/ BrpopServed(c, how)
           \/ BrpopTimeout(c, how)
           \/ Redis_llen(c, how)
           \/ Redis_lrange(c, how)
           \/ \E m \in Members : Redis_sadd(c, m, how)
           \/ \E m \in Members : Redis_sismember(c, m, how)
           \/ \E m \in Members : Redis_srem(c, m, how)
           \/ Redis_scard(c, how)
           \/ \E m \in Members, p \in Scores : Redis_zadd(c, m, p, how)
           \/ Redis_zpopmax(c, how)
           \/ Redis_zcard(c, how)
           \/ Redis_incr(c, how)
           \/ Redis_decr(c, how)

BrokerSpec == BrokerInit /\ [][BrokerNext]_vars

\* ------------------------------------------------------------------ C25
\* what the server and the in-memory client store
Stores == <<kv_store, lists, r_str, r_ttl, r_list, r_set, r_zset, r_ctr>>

\* a call returns in this step: a call made and ended at once, or a blocked
\* brpop that ends
CallReturned ==
    \/ bLeft' = bLeft - 1 /\ bwait' = bwait
    \/ \E c \in Clients : bwait[c] # "no" /\ bwait'[c] = "no"

\* the call that returns in this step could not complete
CallFailed ==
    /\ CallReturned
    /\ bres'.how # "ok"

\* the conservative default of each operation
DefaultRet(client, op) ==
    IF client = "mem"
    THEN CASE op = "ping" -> RetStr("")
           [] op \in {"rpush", "set", "del"} -> RetBool(FALSE)
           [] op \in {"blpop", "get"} -> RetOpt(Nothing)
           [] op = "llen" -> RetInt(-1)
    ELSE CASE op \in {"ping", "set", "exists", "expire", "sismember"} -> RetBool(FALSE)
           [] op \in {"get", "rpop", "brpop", "zpopmax"} -> RetOpt(Nothing)
           [] op = "ttl" -> RetInt(-2)
           [] op = "lrange" -> RetList(<<>>)
           [] op \in {"del", "lpush", "llen", "sadd", "srem", "scard", "zadd",
                      "zcard", "incr", "decr"} -> RetInt(0)

\* C25 as claimed: every call that cannot complete (no connection, transport
\* error, timeout) returns the conservative default of its operation and
\* leaves everything that is stored as it was.
C25_FailureLeavesStores ==
    [][CallFailed =>
          /\ bres'.ret = DefaultRet(bres'.client, bres'.op)
          /\ UNCHANGED Stores]_vars

\* the server ran the command of the returning call once and no more
RanOnce ==
    LET op == bres'.op IN
    /\ UNCHANGED <<kv_store, lists>>
    /\ op \notin {"set", "del", "expire"} => UNCHANGED <<r_str, r_ttl>>
    /\ op \in {"set", "del", "expire"} => UNCHANGED <<r_list, r_set, r_zset, r_ctr>>
    /\ op = "lpush" =>
           /\ Len(r_list') = Len(r_list) + 1
           /\ UNCHANGED <<r_set, r_zset, r_ctr>>
    /\ op \in {"rpop", "brpop"} =>
           /\ r_list' = (IF r_list = <<>> THEN <<>> ELSE Front(r_list))
           /\ UNCHANGED <<r_set, r_zset, r_ctr>>
    /\ op \in {"sadd", "srem"} =>
           /\ r_set \subseteq r_set' \/ r_set' \subseteq r_set
           /\ Cardinality((r_set \ r_set') \cup (r_set' \ r_set)) <= 1
           /\ UNCHANGED <<r_list, r_zset, r_ctr>>
    /\ op = "zadd" =>
           /\ Cardinality(r_zset') \in {Cardinality(r_zset), Cardinality(r_zset) + 1}
           /\ UNCHANGED <<r_list, r_set, r_ctr>>
    /\ op = "zpopmax" =>
           /\ r_zset' = (IF r_zset = {} THEN {} ELSE r_zset \ {ZMax})
           /\ UNCHANGED <<r_list, r_set, r_ctr>>
    /\ op = "incr" =>
           /\ r_ctr' = Some(CtrValue + 1)
           /\ UNCHANGED <<r_list, r_set, r_zset>>
    /\ op = "decr" =>
           /\ r_ctr' = Some(CtrValue - 1)
           /\ UNCHANGED <<r_list, r_set, r_zset>>

\* C25, amended: every call that cannot complete returns the conservative
\* default of its operation. When the client has no connection or the
\* error came before the server ran the command, everything stored is as it
\* was; when the reply of a command the server ran is lost (socket timeout),
\* the server holds the effect of that one command, run once.
C25_FailureDefault ==
    [][CallFailed =>
          /\ bres'.ret = DefaultRet(bres'.client, bres'.op)
          /\ bres'.how # "lost" => UNCHANGED Stores
          /\ bres'.how = "lost" => RanOnce]_vars

\* a push, an add or an increment has just failed (no connection, or an
\* error before the server ran it) while a list, a set or a counter is stored
C25_Witness ==
    /\ bres.how \in {"error", "null"}
    /\ bres.op \in {"lpush", "rpush", "sadd", "incr"}
    /\ \/ r_list # <<>>
       \/ r_set # {}
       \/ r_ctr # Nothing

\* ------------------------------------------------------------------ C23
\* C23: every task the program produces has a non-empty worker_id exactly
\* when its status is RUNNING: the task Task::create returns, and the task
\* Task::from_json returns from a JSON object.
C23_WorkerIdIffRunning ==
    /\ cpc = "created" =>
           (t_in.worker_id # "" <=> t_in.status = RUNNING)
    /\ cpc = "done" /\ t_out.ok =>
           (t_out.task.worker_id # "" <=> t_out.task.status = RUNNING)

\* ====================================================== worker path: steps
\* the producer of 4.D submits tasks made by Task::create to queue:<name>;
\* two workers run the loop of 4.E on it. The broker answers their calls.

WorkerOnly == UNCHANGED <<queueVars, codec, sample, uuid, connected_, kv_store, lists,
                          redis_, r_str, r_ttl, r_set, r_zset, r_ctr, bwait,
                          bres, hist, setLog, bLeft>>

WorkerInit ==
    /\ QueueOff
    /\ SampleOff
    /\ BrokerOff
    /\ WorkerIdle
    /\ toSubmit = MaxTasks
    /\ UuidOff

\* the envelope of a task as it is pushed: to_json().dump()
Envelope(t) == dump(Task_to_json(t))

\* one more status change of a task: it was old, it is new
Moved(h, old, new) ==
    [h EXCEPT !.moves = Append(@, [from |-> old.status, to |-> new.status,
                                   retry_count |-> old.retry_count])]

\* 4.D: construct a task, serialize, lpush queue:<name>
Submit(ty, mr) ==
    /\ toSubmit > 0
    /\ LET seed == TaskSeeds[MaxTasks - toSubmit + 1]
           t == Task_create(ty, "p", HIGH, mr, 0, seed[1], seed[2]) IN
       /\ r_list' = <<Envelope(t)>> \o r_list
       /\ whist' = [whist EXCEPT ![t.id] =
                       [NoTaskHist EXCEPT !.max_retries = mr, !.made = TRUE]]
    /\ toSubmit' = toSubmit - 1
    /\ UNCHANGED <<wpc, wtext, wtask, tstore>>
    /\ WorkerOnly

\* text that is no envelope gets into the queue
SubmitGarbage ==
    /\ toSubmit > 0
    /\ Garbage \notin Range(r_list)
    /\ \A w \in Workers : wtext[w] # Garbage
    /\ r_list' = <<Garbage>> \o r_list
    /\ UNCHANGED <<wpc, wtext, wtask, tstore, toSubmit, whist>>
    /\ WorkerOnly

\* step 1: brpop queue:<name>; an absent result loops
W_pop(w) ==
    /\ wpc[w] = "idle"
    /\ r_list # <<>>
    /\ wtext' = [wtext EXCEPT ![w] = Last(r_list)]
    /\ r_list' = Front(r_list)
    /\ wpc' = [wpc EXCEPT ![w] = "popped"]
    /\ UNCHANGED <<wtask, tstore, toSubmit, whist>>
    /\ WorkerOnly

\* step 3: parse the envelope; BadEnvelope: drop, no retry
W_parse(w) ==
    /\ wpc[w] = "popped"
    /\ IF ParseThrows(wtext[w]) \/ ~Task_from_json(parse(wtext[w])).ok
       THEN /\ wpc' = [wpc EXCEPT ![w] = "idle"]
            /\ UNCHANGED wtask
       ELSE /\ wtask' = [wtask EXCEPT ![w] = Task_from_json(parse(wtext[w])).task]
            /\ wpc' = [wpc EXCEPT ![w] = "parsed"]
    /\ wtext' = [wtext EXCEPT ![w] = NoText]
    /\ UNCHANGED <<r_list, tstore, toSubmit, whist>>
    /\ WorkerOnly

\* step 4: PENDING -> RUNNING, stamp worker_id and updated_at
W_start(w) ==
    /\ wpc[w] = "parsed"
    /\ LET t == [wtask[w] EXCEPT !.status = RUNNING,
                                 !.worker_id = WorkerName(w),
                                 !.updated_at = @ + TicksPerSecond] IN
       /\ wtask' = [wtask EXCEPT ![w] = t]
       /\ whist' = [whist EXCEPT ![t.id] = Moved(@, wtask[w], t)]
    /\ wpc' = [wpc EXCEPT ![w] = "running"]
    /\ UNCHANGED <<r_list, wtext, tstore, toSubmit>>
    /\ WorkerOnly

\* the handler of the task's type has run and reported result
Ran(h, result) ==
    [h EXCEPT !.runs = @ + 1, !.results = @ \cup {result}]

\* the worker is done with its task, now t: it records it at task:<id>
Finish(w, t) ==
    /\ tstore' = [tstore EXCEPT ![t.id] = Envelope(t)]
    /\ wtask' = [wtask EXCEPT ![w] = NoRec]
    /\ wpc' = [wpc EXCEPT ![w] = "idle"]

\* steps 5, 6: the handler reports success: RUNNING -> COMPLETED
W_success(w) ==
    /\ wpc[w] = "running"
    /\ wtask[w].type \in Registered
    /\ LET t == [wtask[w] EXCEPT !.status = COMPLETED, !.worker_id = ""] IN
       /\ whist' = [whist EXCEPT ![t.id] = Moved(Ran(@, "success"), wtask[w], t)]
       /\ Finish(w, t)
    /\ UNCHANGED <<r_list, wtext, toSubmit>>
    /\ WorkerOnly

\* steps 5, 7, 8: the handler reports a recoverable failure: with
\* retry_count < max_retries increment retry_count, RUNNING -> PENDING,
\* re-push; with retry_count = max_retries RUNNING -> FAILED
W_recoverable(w) ==
    /\ wpc[w] = "running"
    /\ wtask[w].type \in Registered
    /\ IF wtask[w].retry_count < wtask[w].max_retries
       THEN LET t == [wtask[w] EXCEPT !.retry_count = @ + 1,
                                      !.status = PENDING,
                                      !.worker_id = ""] IN
            /\ r_list' = <<Envelope(t)>> \o r_list
            /\ whist' = [whist EXCEPT ![t.id] =
                            [Moved(Ran(@, "recoverable"), wtask[w], t)
                                EXCEPT !.repushed = Append(@, t.retry_count)]]
            /\ wtask' = [wtask EXCEPT ![w] = NoRec]
            /\ wpc' = [wpc EXCEPT ![w] = "idle"]
            /\ UNCHANGED tstore
       ELSE LET t == [wtask[w] EXCEPT !.status = FAILED, !.worker_id = ""] IN
            /\ whist' = [whist EXCEPT ![t.id] =
                            Moved(Ran(@, "recoverable"), wtask[w], t)]
            /\ Finish(w, t)
            /\ UNCHANGED r_list
    /\ UNCHANGED <<wtext, toSubmit>>
    /\ WorkerOnly

\* steps 5, 8: the handler reports a fatal failure: RUNNING -> FAILED
W_fatal(w) ==
    /\ wpc[w] = "running"
    /\ wtask[w].type \in Registered
    /\ LET t == [wtask[w] EXCEPT !.status = FAILED, !.worker_id = ""] IN
       /\ whist' = [whist EXCEPT ![t.id] = Moved(Ran(@, "fatal"), wtask[w], t)]
       /\ Finish(w, t)
    /\ UNCHANGED <<r_list, wtext, toSubmit>>
    /\ WorkerOnly

\* NoHandler: the type has no registered handler: the task fails, no retry
W_nohandler(w) ==
    /\ wpc[w] = "running"
    /\ wtask[w].type \notin Registered
    /\ LET t == [wtask[w] EXCEPT !.status = FAILED, !.worker_id = ""] IN
       /\ whist' = [whist EXCEPT ![t.id] =
                       Moved([@ EXCEPT !.results = @ \cup {"nohandler"}],
                             wtask[w], t)]
       /\ Finish(w, t)
    /\ UNCHANGED <<r_list, wtext, toSubmit>>
    /\ WorkerOnly

\* step 9: external cancellation: to CANCELLED from PENDING or RUNNING
W_cancel(w) ==
    /\ wpc[w] \in {"parsed", "running"}
    /\ LET t == [wtask[w] EXCEPT !.status = CANCELLED, !.worker_id = ""] IN
       /\ whist' = [whist EXCEPT ![t.id] = Moved(@, wtask[w], t)]
       /\ Finish(w, t)
    /\ UNCHANGED <<r_list, wtext, toSubmit>>
    /\ WorkerOnly

WorkerNext ==
    \/ \E ty \in {"t", "u"}, mr \in 0..MaxRetries : Submit(ty, mr)
    \/ SubmitGarbage
    \/ \E w \in Workers : W_pop(w)
    \/ \E w \in Workers : W_parse(w)
    \/ \E w \in Workers : W_start(w)
    \/ \E w \in Workers : W_success(w)
    \/ \E w \in Workers : W_recoverable(w)
    \/ \E w \in Workers : W_fatal(w)
    \/ \E w \in Workers : W_nohandler(w)
    \/ \E w \in Workers : W_cancel(w)

WorkerSpec == WorkerInit /\ [][WorkerNext]_vars

\* ------------------------------------------------------------------ C21
\* the legal graph of the task status
LegalMoves ==
    {<<PENDING, RUNNING>>, <<RUNNING, COMPLETED>>, <<RUNNING, FAILED>>,
     <<RUNNING, PENDING>>, <<PENDING, CANCELLED>>, <<RUNNING, CANCELLED>>}
Terminal == {COMPLETED, FAILED, CANCELLED}

\* C21: the status of a task changes only along the legal graph: every
\* change starts from the status the task was created with (PENDING) or was
\* given last, is one of PENDING->RUNNING, RUNNING->COMPLETED,
\* RUNNING->FAILED, RUNNING->PENDING (only with retry_count < max_retries),
\* PENDING->CANCELLED, RUNNING->CANCELLED; no change leaves COMPLETED, FAILED
\* or CANCELLED; a task that is COMPLETED or FAILED has been RUNNING.
C21_LegalTransitions ==
    \A id \in TaskIds :
        LET m == whist[id].moves IN
        \A i \in 1..Len(m) :
            /\ m[i].from = (IF i = 1 THEN PENDING ELSE m[i - 1].to)
            /\ <<m[i].from, m[i].to>> \in LegalMoves
            /\ m[i].from \notin Terminal
            /\ m[i].from = RUNNING /\ m[i].to = PENDING =>
                   m[i].retry_count < whist[id].max_retries
            /\ m[i].to \in {COMPLETED, FAILED} =>
                   \E j \in 1..(i - 1) : m[j].to = RUNNING

\* one task has been retried and then completed, the other was cancelled
\* while PENDING
C21_Witness ==
    \E a, b \in TaskIds :
        /\ Len(whist[a].moves) >= 4
        /\ whist[a].moves[2].to = PENDING
        /\ whist[a].moves[Len(whist[a].moves)].to = COMPLETED
        /\ Len(whist[b].moves) = 1
        /\ whist[b].moves[1].to = CANCELLED

\* ------------------------------------------------------------------ C22
\* the envelopes of task id in the queue
Queued(id) ==
    {i \in 1..Len(r_list) :
        /\ r_list[i].kind = "text"
        /\ Task_from_json(parse(r_list[i])).task.id = id}

\* the handler has reported a recoverable failure on every run of task id
OnlyRecoverable(id) ==
    /\ whist[id].made
    /\ whist[id].results \subseteq {"recoverable"}

\* task id has reached FAILED
HasFailed(id) ==
    /\ whist[id].moves # <<>>
    /\ whist[id].moves[Len(whist[id].moves)].to = FAILED

\* C22: a task whose handler reports a recoverable failure on every attempt
\* is re-pushed with retry_count 1, 2, ... (one more after each attempt) while
\* retry_count < max_retries; the attempt made with retry_count = max_retries
\* ends RUNNING -> FAILED and the task is not pushed again: it is never
\* executed more than max_retries + 1 times, once FAILED it has been executed
\* exactly max_retries + 1 times and re-pushed max_retries times, and its
\* retry_count never exceeds max_retries, in the queue or at a worker.
C22_RetryBound ==
    \A id \in TaskIds :
        OnlyRecoverable(id) =>
            LET h == whist[id] IN
            /\ \A i \in 1..Len(h.repushed) : h.repushed[i] = i
            /\ Len(h.repushed) <= h.max_retries
            /\ h.runs <= h.max_retries + 1
            /\ h.runs \in {Len(h.repushed), Len(h.repushed) + 1}
            /\ \A i \in Queued(id) :
                   Task_from_json(parse(r_list[i])).task.retry_count <= h.max_retries
            /\ \A w \in Workers :
                   wtask[w].id = id => wtask[w].retry_count <= h.max_retries
            /\ HasFailed(id) =>
                   /\ h.runs = h.max_retries + 1
                   /\ Len(h.repushed) = h.max_retries
                   /\ h.moves[Len(h.moves)].retry_count = h.max_retries
                   /\ Queued(id) = {}

\* the task with max_retries = 2 of the spec's scenario: re-pushed with 1,
\* then 2, then FAILED after three runs
C22_Witness ==
    \E id \in TaskIds :
        /\ OnlyRecoverable(id)
        /\ whist[id].max_retries = 2
        /\ whist[id].repushed = <<1, 2>>
        /\ whist[id].runs = 3
        /\ HasFailed(id)

\* ------------------------------------------------- shutdown and draining

\* the step is the return of a dequeue, called or resumed from its wait,
\* made while the shutdown flag was set
DequeueAfterShutdown ==
    /\ shutdown_
    /\ \/ last'.op = "dequeue"
       \/ \E t \in Threads : Resumed(t, "deq_wait")

\* C31 (as claimed): with the shutdown flag set, every dequeue on a
\* non-empty queue, called with a zero or a positive timeout or resumed from
\* its wait, returns without waiting the task of highest priority that is
\* held, and a dequeue returns absent only when the queue is empty.
C31_QueuedSurviveShutdown ==
    [][DequeueAfterShutdown =>
          /\ ~IsEmpty =>
                 /\ last'.res = "task"
                 /\ \A t \in Threads :
                        (pc[t] = "idle" \/ Resumed(t, "deq_wait")) =>
                            pc'[t] = "idle"
                 /\ Len(queue_') = Len(queue_) - 1
                 /\ lastDeq'.seq \in InQueue
                 /\ \A e \in Entries(queue_) : lastDeq'.priority <= e.priority
          /\ last'.res = "absent" => IsEmpty]_vars

\* C32 (as claimed): when the destructor has returned no thread is inside
\* enqueue or dequeue, and no caller that was blocked at shutdown touches
\* the destroyed mutex, condition variables or heap afterwards.
C32_DestructionWaitsForCallers ==
    /\ Destroyed => \A t \in Threads : pc[t] \notin {"enq_wait", "deq_wait"}
    /\ \A t \in Threads : pc[t] # "ub"

\* C33 (as claimed): in every state the HIGH, MEDIUM and LOW counts of
\* get_stats() are the numbers of tasks of each priority held in the queue,
\* and they add up to current_size.
C33_StatsBreakdown ==
    LET st == get_stats
        bd == st.priority_breakdown
    IN  /\ \A p \in Priorities :
               bd[p] = Cardinality({e \in Entries(queue_) : e.priority = p})
        /\ bd[HIGH] + bd[MEDIUM] + bd[LOW] = st.current_size

\* ------------------------------------------------- timestamps on the wire

\* the whole seconds of time point tp, cut toward zero
WholeSeconds(tp, s) ==
    /\ tp >= 0 => (s * TicksPerSecond <= tp /\ tp < (s + 1) * TicksPerSecond)
    /\ tp < 0 => (s * TicksPerSecond >= tp /\ tp > (s - 1) * TicksPerSecond)

\* C34 (as claimed): the created_at and updated_at members of the envelope
\* are the task's instants in whole seconds, cut toward zero, for every
\* instant; and encoding the decoded task gives the same envelope again:
\* to_json(from_json(to_json(t))) = to_json(t).
C34_WireSecondsStable ==
    (RoundTripDone /\ t_out.ok) =>
        /\ \A k \in {"created_at", "updated_at"} :
               /\ wire.f[k].type = "integer"
               /\ WholeSeconds(FieldOf(t_in, k), wire.f[k].v)
        /\ Task_to_json(t_out.task) = wire

\* ------------------------------------------------ enum values on the wire

Statuses == {PENDING, RUNNING, COMPLETED, FAILED, CANCELLED}

\* C35 (as claimed): every task from_json returns has a priority among
\* HIGH, MEDIUM, LOW and a status among the five of TaskStatus; a wire
\* priority outside 0..2 comes back as MEDIUM and a wire status outside
\* 0..4 as PENDING.
C35_EnumsInRange ==
    (cpc = "done" /\ wire.kind = "object" /\ t_out.ok) =>
        /\ t_out.task.priority \in Priorities
        /\ t_out.task.status \in Statuses
        /\ (wire.f["priority"].type = "integer"
                /\ wire.f["priority"].v \notin Priorities) =>
               t_out.task.priority = MEDIUM
        /\ (wire.f["status"].type = "integer"
                /\ wire.f["status"].v \notin Statuses) =>
               t_out.task.status = PENDING

\* ------------------------------------------------------------------ C36
\* C36 (as claimed): a sadd that returns 0 found the member in the set, and
\* a sadd that returns 1 found it missing and added it; so a 0 never comes
\* from a broker that could not be reached.
C36_SaddZeroMeansPresent ==
    \A i \in 1..Len(setLog) :
        setLog[i].op = "sadd" =>
            /\ setLog[i].ret \in {0, 1}
            /\ setLog[i].ret = 0 => setLog[i].member \in setLog[i].before
            /\ setLog[i].ret = 1 =>
                   /\ setLog[i].member \notin setLog[i].before
                   /\ setLog[i].member \in setLog[i].after

\* ================================================= in-memory client: steps
\* two callers use every operation of the in-memory client on one key

MemInit ==
    /\ QueueOff
    /\ SampleOff
    /\ WorkerOff
    /\ UuidOff
    /\ BrokerIdle
    /\ bLeft = MaxMemCalls

MemNext ==
    \/ \E c \in Clients : Mem_connect(c)
    \/ \E c \in Clients : Mem_ping(c)
    \/ \E c \in Clients : Mem_rpush(c)
    \/ \E c \in Clients : Mem_blpop(c)
    \/ \E c \in Clients, v \in Values : Mem_set(c, v)
    \/ \E c \in Clients : Mem_get(c)
    \/ \E c \in Clients : Mem_del(c)
    \/ \E c \in Clients : Mem_llen(c)

MemSpec == MemInit /\ [][MemNext]_vars

\* ------------------------------------------------------------------ C37
\* the step is a call of the connected in-memory client
MemCall == bLeft' = bLeft - 1 /\ bres'.client = "mem" /\ connected_

\* C37 (as claimed): on a connected in-memory client del(key) returns true
\* exactly when the key held a string or a list with at least one element,
\* so false for a list emptied by pops; and a get or llen that follows the
\* del returns absent, respectively 0.
C37_DelTrueIffValue ==
    [][MemCall =>
          /\ bres'.op = "del" =>
                 bres'.ret.b = (kv_store # Nothing \/ lists.items # <<>>)
          /\ (bres.op = "del" /\ bres'.op = "get") => bres'.ret.s = Nothing
          /\ (bres.op = "del" /\ bres'.op = "llen") => bres'.ret.n = 0]_vars

\* ------------------------------------------------------------------ C38
\* C38 (as claimed): a blocking pop with timeout 0 returns only with an
\* element. The in-memory blpop ignores its timeout argument, so each of
\* its calls is also the call blpop(key, 0): on a connected client it never
\* returns absent. A brpop(key, 0) that blocked at the server ends only by
\* being served, with the element at the tail of the list.
C38_ZeroTimeoutBlocks ==
    [][/\ (bLeft' = bLeft - 1 /\ bres'.client = "mem" /\ bres'.op = "blpop"
               /\ connected_) =>
              bres'.ret.s # Nothing
       /\ \A c \in Clients :
              (bwait[c] = "forever" /\ bwait'[c] = "no") =>
                  /\ r_list # <<>>
                  /\ bres'.ret.s = Some(Last(r_list))]_vars

\* ============================================ both clients, one key: steps
\* A caller runs each operation first on the connected in-memory client and
\* then on the Redis-backed client, with the same key and the same argument.
\* The server keeps one value per key: r_str and r_list are here the string
\* and the list at that one key, and at most one of them is there. The
\* server answers a list command on a string key, and GET on a list key,
\* with a WRONGTYPE error, which redis-plus-plus throws as sw::redis::Error
\* and the client turns into its default (how = "wrongtype").

PairInit ==
    /\ QueueOff
    /\ SampleOff
    /\ WorkerOff
    /\ UuidOff
    /\ BrokerIdle
    /\ bLeft = MaxPairCalls

\* the Redis-backed client has still to repeat the in-memory call op of c
Pending(c, op) ==
    /\ CanCall(c)
    /\ bres.client = "mem"
    /\ bres.by = c
    /\ bres.op = op

\* the caller can make its next call on the in-memory client
MemTurn == connected_ /\ (bres.client = "mem" => bres.op = "connect")

PairOnly == UNCHANGED <<redis_, r_set, r_zset, r_ctr, bwait, setLog>>

\* SET replaces whatever the key holds
Same_set(c) ==
    /\ Pending(c, "set")
    /\ r_str' = kv_store
    /\ r_ttl' = NoExpiry
    /\ r_list' = <<>>
    /\ Returns(Call("redis", c, "set", "k", "ok", RetBool(TRUE)))
    /\ UNCHANGED hist
    /\ PairOnly
    /\ RedisOnly

Same_get(c) ==
    /\ Pending(c, "get")
    /\ IF r_list # <<>>
       THEN Returns(Call("redis", c, "get", "k", "wrongtype", RetOpt(Nothing)))
       ELSE Returns(Call("redis", c, "get", "k", "ok", RetOpt(r_str)))
    /\ UNCHANGED <<r_str, r_ttl, r_list, hist>>
    /\ PairOnly
    /\ RedisOnly

\* DEL removes the key whatever it holds and counts it if it was there
Same_del(c) ==
    /\ Pending(c, "del")
    /\ r_str' = Nothing
    /\ r_ttl' = NoExpiry
    /\ r_list' = <<>>
    /\ Returns(Call("redis", c, "del", "k", "ok",
                     RetInt(IF r_str # Nothing \/ r_list # <<>> THEN 1 ELSE 0)))
    /\ UNCHANGED hist
    /\ PairOnly
    /\ RedisOnly

\* the push that answers rpush: the element the in-memory client was given
Same_lpush(c) ==
    /\ Pending(c, "rpush")
    /\ LET v == Last(hist.mem_pushed) IN
       IF r_str # Nothing
       THEN /\ Returns(Call("redis", c, "lpush", "k", "wrongtype", RetInt(0)))
            /\ UNCHANGED <<r_list, hist>>
       ELSE /\ r_list' = <<v>> \o r_list
            /\ hist' = [hist EXCEPT !.r_pushed = Append(@, v)]
            /\ Returns(Call("redis", c, "lpush", "k", "ok",
                            RetInt(Len(r_list) + 1)))
    /\ UNCHANGED <<r_str, r_ttl>>
    /\ PairOnly
    /\ RedisOnly

\* the pop that answers blpop; the server drops a list emptied by a pop
Same_rpop(c) ==
    /\ Pending(c, "blpop")
    /\ IF r_str # Nothing
       THEN /\ Returns(Call("redis", c, "rpop", "k", "wrongtype", RetOpt(Nothing)))
            /\ UNCHANGED <<r_list, hist>>
       ELSE IF r_list = <<>>
       THEN /\ Returns(Call("redis", c, "rpop", "k", "ok", RetOpt(Nothing)))
            /\ UNCHANGED <<r_list, hist>>
       ELSE /\ PopTail("ok")
            /\ Returns(Call("redis", c, "rpop", "k", "ok",
                            RetOpt(Some(Last(r_list)))))
    /\ UNCHANGED <<r_str, r_ttl>>
    /\ PairOnly
    /\ RedisOnly

Same_llen(c) ==
    /\ Pending(c, "llen")
    /\ IF r_str # Nothing
       THEN Returns(Call("redis", c, "llen", "k", "wrongtype", RetInt(0)))
       ELSE Returns(Call("redis", c, "llen", "k", "ok", RetInt(Len(r_list))))
    /\ UNCHANGED <<r_str, r_ttl, r_list, hist>>
    /\ PairOnly
    /\ RedisOnly

PairNext ==
    \/ \E c \in Clients : ~connected_ /\ Mem_connect(c)
    \/ \E c \in Clients, v \in Values : MemTurn /\ Mem_set(c, v)
    \/ \E c \in Clients : MemTurn /\ Mem_get(c)
    \/ \E c \in Clients : MemTurn /\ Mem_del(c)
    \/ \E c \in Clients : MemTurn /\ Mem_rpush(c)
    \/ \E c \in Clients : MemTurn /\ Mem_blpop(c)
    \/ \E c \in Clients : MemTurn /\ Mem_llen(c)
    \/ \E c \in Clients : Same_set(c)
    \/ \E c \in Clients : Same_get(c)
    \/ \E c \in Clients : Same_del(c)
    \/ \E c \in Clients : Same_lpush(c)
    \/ \E c \in Clients : Same_rpop(c)
    \/ \E c \in Clients : Same_llen(c)

PairSpec == PairInit /\ [][PairNext]_vars

\* ------------------------------------------------------------------ C39
\* the Redis-backed client's answer r to the call the in-memory client
\* answered with m: the same boolean, the same optional string, the same
\* length; a push or a delete succeeded on both or on neither
SameAnswer(m, r) ==
    CASE m.op = "set" -> r.ret.b = m.ret.b
      [] m.op = "get" -> r.ret.s = m.ret.s
      [] m.op = "del" -> (r.ret.n > 0) = m.ret.b
      [] m.op = "rpush" -> (r.ret.n > 0) = m.ret.b
      [] m.op = "blpop" -> r.ret.s = m.ret.s
      [] m.op = "llen" -> r.ret.n = m.ret.n

\* C39 (as claimed): run side by side on the same operations, the two
\* clients give the same answer to every call.
C39_SideBySide ==
    [][(bres.client = "mem" /\ bres'.client = "redis") =>
           SameAnswer(bres, bres')]_vars

\* ==================================================== id generator: steps
\* (processing/src/core/Task.cpp lines 8-43, common/src/uuid_generator.cpp)
\* Threads call generate_uuid at the same time. The generator gen is a
\* function-local static: its construction is synchronised by the language,
\* its use is not. dis(gen) reads the state of gen, computes an output from
\* it and writes the advanced state back; the output computed from the
\* state after n outputs is written n.

UuidOnly == UNCHANGED <<queueVars, codec, sample, broker, worker>>

UuidInit ==
    /\ QueueOff
    /\ SampleOff
    /\ BrokerOff
    /\ WorkerOff
    /\ UuidIdle
    /\ uLeft = MaxUuidCalls

\* thread t enters generate_uuid: an empty stringstream
U_call(t) ==
    /\ upc[t] = "idle"
    /\ uLeft > 0
    /\ uLeft' = uLeft - 1
    /\ upc' = [upc EXCEPT ![t] = "draw"]
    /\ uid' = [uid EXCEPT ![t] = <<>>]
    /\ UNCHANGED <<gen, uld, uret>>
    /\ UuidOnly

\* dis(gen), first half: the engine's state is read
U_load(t) ==
    /\ upc[t] = "draw"
    /\ uld' = [uld EXCEPT ![t] = gen]
    /\ upc' = [upc EXCEPT ![t] = "loaded"]
    /\ UNCHANGED <<gen, uid, uret, uLeft>>
    /\ UuidOnly

\* another thread is inside a draw, or has changed the state since t read
\* it: the accesses of t and of that thread to gen are a data race
Races(t) ==
    \/ \E u \in Threads \ {t} : upc[u] = "loaded"
    \/ gen # uld[t]

\* the output is written to the stream and the draws go on, or were the last
Drawn(t) ==
    /\ uid' = [uid EXCEPT ![t] = Append(@, uld[t])]
    /\ upc' = [upc EXCEPT
                  ![t] = IF Len(uid[t]) + 1 = MaxDraws THEN "ret" ELSE "draw"]

\* dis(gen), second half: the advanced state is written back and the output
\* goes to the stream. In a data race the behaviour is undefined: the
\* accesses may take effect one after the other as written here (the state
\* another thread wrote is overwritten), or anything else may happen ("ub":
\* a crash, a hang, a return of any string)
U_store(t) ==
    /\ upc[t] = "loaded"
    /\ \/ /\ gen' = uld[t] + 1
          /\ Drawn(t)
       \/ /\ Races(t)
          /\ upc' = [upc EXCEPT ![t] = "ub"]
          /\ UNCHANGED <<gen, uid>>
    /\ UNCHANGED <<uld, uret, uLeft>>
    /\ UuidOnly

\* return ss.str()
U_return(t) ==
    /\ upc[t] = "ret"
    /\ uret' = Append(uret, uid[t])
    /\ upc' = [upc EXCEPT ![t] = "idle"]
    /\ UNCHANGED <<gen, uld, uid, uLeft>>
    /\ UuidOnly

UuidNext ==
    \/ \E t \in Threads : U_call(t)
    \/ \E t \in Threads : U_load(t)
    \/ \E t \in Threads : U_store(t)
    \/ \E t \in Threads : U_return(t)

UuidSpec == UuidInit /\ [][UuidNext]_vars

\* ------------------------------------------------------------------ C40
\* C40 (as claimed): concurrent calls of generate_uuid never read and update
\* the generator in an interleaved way (no two threads are inside a draw at
\* once and no call ends in undefined behaviour), so every id returned is
\* complete and no two ids returned are the same.
C40_UuidThreadSafe ==
    /\ \A t, u \in Threads :
           (upc[t] = "loaded" /\ upc[u] = "loaded") => t = u
    /\ \A t \in Threads : upc[t] # "ub"
    /\ \A i \in 1..Len(uret) : Len(uret[i]) = MaxDraws
    /\ \A i, j \in 1..Len(uret) : uret[i] = uret[j] => i = j

====
